---- MODULE Spec2Model ----
(***************************************************************************)
(* State-machine model of the messaging core of messa:                     *)
(*   - SignalProtocolService (pairwise sessions, prekeys, chains),         *)
(*   - ForwardSecrecyService (key rotation, receiving-chain cleanup),      *)
(*   - MLSService (groups, epochs, tree hash, group envelopes).            *)
(* Byte buffers are symbolic terms: a tuple whose first element is a tag.  *)
(* Library primitives (libsodium, noble, kyber) are modelled by their      *)
(* contract: a KDF/hash/MAC is an injective term constructor, an AEAD      *)
(* opens only under the key, nonce and associated data it was sealed with, *)
(* a random draw is a value that was never drawn before.                   *)
(***************************************************************************)
EXTENDS Integers, Sequences, FiniteSets, TLC

(***************************************************************************)
(* Program constants                                                       *)
(***************************************************************************)
\* generatePreKeys: for (let i = 1; i <= 100; i++)
PreKeyCount == 100
\* rotateSignedPreKey: if (this.preKeys.size > 100)
PreKeyPruneThreshold == 100
\* rotateSignedPreKey: .slice(0, 50)
PreKeyPruneCount == 50
\* generateSignedPreKey: Date.now() % 0xFFFFFF
KeyIdModulus == 16777215
\* encryptMessage: messageType: 1 // Text message
TextMessageType == 1
\* encryptGroupMessage: messageType: 2 // Group message
GroupMessageType == 2
\* cleanupOldKeys: receivingChains.size > 5
MaxReceivingChains == 5
RotationInterval == 100
\* quantumSafeVerify: the signature length it assumes, and the age in
\* milliseconds (5 * 60 * 1000) past which it rejects
SignatureLength == 2420
MaxSignatureAge == 300000
\* quantumSafeSign: bytes of the timestamp and of the nonce
TimestampBytes == 8
SignNonceBytes == 32
\* hybridEncrypt: bytes of the length prefix
LengthPrefixBytes == 4
\* libsodium crypto_aead_chacha20poly1305_ietf: NPUBBYTES and ABYTES
AeadNonceBytes == 12
AeadTagBytes == 16
\* Kyber768: bytes of an encapsulated key
KemCiphertextBytes == 1088

(***************************************************************************)
(* Bounds of the model                                                     *)
(***************************************************************************)
\* random-drawing handler calls in a behaviour of Spec
MaxFresh == 5
\* the random index of generatePreKeyBundle is drawn below this in Spec
MaxSignalDraw == 1
\* bundles a device hands out in Spec
MaxBundles == 1
\* random-drawing handler calls in a behaviour of SpecPreKeys
MaxPreKeyFresh == 2
\* the random index of generatePreKeyBundle is drawn below this in SpecPreKeys
MaxDraw == 3
\* random-drawing handler calls in a behaviour of SpecRatchet
MaxRatchetFresh == 9
\* rotateKeys calls on one ForwardSecrecyService session
MaxRotations == 7
\* ephemeral keys a peer attaches to the envelopes it sends
MaxEphKeys == 6
\* SpecMLS: random draws of the MLSService instances
MaxMlsFresh == 4
\* SpecAsync: random draws while encryptMessage calls are in flight
MaxAsyncFresh == 5
\* SpecSession: random draws while sessions are set up from received bundles
MaxSessionFresh == 4
\* SpecProposals: random draws of the MLSService calls
MaxProposalFresh == 3
\* SpecEphemeral: random draws of the ephemeral-message calls, and the
\* last instant the clock reaches
MaxEphemeralFresh == 4
MaxInstant == 3
\* SpecEnvelope: random draws of hybridEncrypt
MaxEnvelopeFresh == 1
\* SpecSecrecy: random draws and rotations of a ForwardSecrecyService session
MaxSecrecyFresh == 4
MaxSecrecyRotations == 7
\* SpecOrder: messages sent on one chain
MaxOrderMessages == 5
\* SpecWrap: random draws of the MessageEncryptionService calls
MaxWrapFresh == 4
\* SpecCrypto: hybridEncrypt and quantumSafeSign calls
MaxCryptoFresh == 1
\* SpecGroupAsync: random draws while MLSService calls are in flight
MaxGroupAsyncFresh == 4

Devices == {"A", "B"}
Plaintexts == {"hello", "bye"}
FsSessionIds == {"s1"}
\* the users that run an MLSService, and the user ids that can be members
MlsUsers == {"A", "D"}
UserIds == {"A", "B", "D"}
GroupIds == {"g"}
\* the calls that can be in flight at once
CallIds == {1, 2}
\* KEM and signing key pairs, by the number of the keypair() call that made them
KeyIds == {1, 2}
\* Date.now() readings, in milliseconds
Clock == {0, 1, 300001, 600001, 600002}
\* the reading of the signer's clock
SignClock == {300001}
\* what eight bytes that were not written as a timestamp read as
GarbledTimes == {1, 300001}

(***************************************************************************)
(* Values                                                                  *)
(***************************************************************************)
Undefined == <<"undefined">>
NoKeyPair == [present |-> FALSE]
NoSession == [present |-> FALSE]
NoBundle == [present |-> FALSE]
NoCall == [op |-> "none"]
NoGroup == [present |-> FALSE]
\* no call in flight
Idle == [pc |-> "idle"]
\* a proposal target that !proposal.target rejects (undefined or "")
NoTarget == ""
\* a byte buffer that is not a valid key
Malformed == <<"malformed">>

Ok(v) == <<"ok", v>>
Err(e) == <<"error", e>>
IsOk(r) == r[1] = "ok"

Range(s) == {s[i] : i \in DOMAIN s}

\* ed25519.utils.randomPrivateKey / sodium.randombytes_buf / uuidv4:
\* the draw number `tick` of the calling handler, told apart by `tag`
Rnd(tick, tag) == <<"rnd", tick, tag>>

\* the i-th draw of one kind within one handler call
RndAt(tick, tag, i) == <<"rndAt", tick, tag, i>>

VARIABLES
  identityKeyPair,   \* [Devices -> key pair | NoKeyPair]
  registrationId,    \* [Devices -> Nat]
  sessions,          \* [Devices -> [Devices -> Session | NoSession]]
  preKeys,           \* [Devices -> [gen, ids]]: Map<number, Uint8Array>
  signedPreKey,      \* [Devices -> signed prekey | NoKeyPair]
  fresh,             \* number of random-drawing handler calls so far
  bundles,           \* [Devices -> the bundle the device handed out last]
  bundleCount,       \* [Devices -> bundles handed out since generatePreKeys ran]
  issuedIds,         \* [Devices -> prekey ids handed out since generatePreKeys ran]
  network,           \* envelopes sent: [from, env]
  lastCall,          \* the last API call and what it returned
  droppedChainKeys,  \* [Devices -> chain keys whose buffer was released without memzero]
  fsSessions,        \* ForwardSecrecyService.sessions: [FsSessionIds -> Session | NoSession]
  fsRotations,       \* [FsSessionIds -> rotateKeys calls since establishRatchet]
  fsZeroed,          \* [FsSessionIds -> keys of the stored session whose buffer was memzero'ed]
  groups,            \* MLSService.groups of each user: [MlsUsers -> [GroupIds -> GroupSession | NoGroup]]
  keyPackages,       \* MLSService.keyPackages.get(this.userId) of each user
  credentials,       \* MLSService.credentials.get(this.userId) of each user
  welcomes,          \* the welcome data sendWelcomeMessages sealed and logged
  groupNetwork,      \* group envelopes sent: [from, env]
  pending,           \* [CallIds -> an encryptMessage call suspended at an await | Idle]
  groupPending,      \* [CallIds -> an MLSService call suspended at an await | Idle]
  hybridPackets,     \* packets hybridEncrypt returned: [packet, keyId, data]
  signaturePackets,  \* packets quantumSafeSign returned: [packet, keyId, data, time]
  clock,             \* the time, in seconds
  timers,            \* pending setTimeout callbacks: [handle, id, ttl, scheduledAt, due]
  deletions,         \* the deleteMessage calls made so far: [handle, id, ttl, scheduledAt, at]
  cancelled,         \* message ids whose deletion the application asked to cancel
  delivered,         \* the deliveries to decryptMessage so far, in order: [index, result]
  coverPackets,      \* packets CoverTrafficService handed out: [packet, data]
  packetHistory      \* CoverTrafficService.packetHistory: the ids seen by unwrapPacket

\* the state of SignalProtocolService and of its callers
signalVars == <<identityKeyPair, registrationId, sessions, preKeys, signedPreKey,
                bundles, bundleCount, issuedIds, network, droppedChainKeys>>

\* the state of ForwardSecrecyService
fsVars == <<fsSessions, fsRotations, fsZeroed>>

\* the state of the MLSService instances and of their callers
mlsVars == <<groups, keyPackages, credentials, welcomes, groupNetwork>>

\* the calls in flight, suspended between two of their await points
asyncVars == <<pending, groupPending>>

\* what the callers of QuantumResistantCrypto hold
qrcVars == <<hybridPackets, signaturePackets>>

\* the timers of MessageEncryptionService and the log of what was delivered
mesVars == <<clock, timers, deletions, cancelled, delivered>>

\* the state of CoverTrafficService and the packets its callers hold
coverVars == <<coverPackets, packetHistory>>

vars == <<signalVars, fsVars, mlsVars, asyncVars, qrcVars, mesVars, coverVars, fresh, lastCall>>

(***************************************************************************)
(* SignalProtocolService: primitives                                       *)
(***************************************************************************)
\* ed25519.getSharedSecret(privateKey, publicKey); an undefined operand throws
CalculateDH(privateKey, publicKey) == <<"dh", privateKey, publicKey>>

\* sodium.crypto_kdf_derive_from_key(32, subkeyId, ctx, key)
Kdf(subkeyId, ctx, key) == <<"kdf", ctx, subkeyId, key>>

\* sodium.crypto_generichash(32, data, key)
GenericHash(data, key) == <<"hash", data, key>>

\* sodium.crypto_auth(input, key)
CryptoAuth(input, key) == <<"auth", input, key>>

\* sodium.crypto_secretbox_easy(message, nonce, key)
SecretboxEasy(message, nonce, key) == <<"secretbox", key, nonce, message>>

\* sodium.crypto_secretbox_open_easy: throws unless key and nonce match
SecretboxOpenEasy(ciphertext, nonce, key) ==
  IF ciphertext[1] = "secretbox" /\ ciphertext[2] = key /\ ciphertext[3] = nonce
  THEN Ok(ciphertext[4])
  ELSE Err("DecryptionFailure")

DeriveMasterSecret(dh1, dh2, dh3, dh4) ==
  LET dhConcat == IF dh4 = Undefined THEN <<"concat", dh1, dh2, dh3>>
                  ELSE <<"concat", dh1, dh2, dh3, dh4>>
  IN Kdf(1, "MASTER", GenericHash(dhConcat, "Signal_MessageKeys_MasterSecret"))

DeriveRootKey(masterSecret) == Kdf(1, "ROOT_KEY", masterSecret)

DeriveChainKey(rootKey) == Kdf(1, "CHAIN_KY", rootKey)

DeriveMessageKey(chainKey) == Kdf(1, "MSG_KEY", chainKey)

\* a chain that is not advanced: the key is handed back as it is
AdvanceChainKey_Kept(chainKey) == chainKey

AdvanceChainKey(chainKey) == CryptoAuth("advance", chainKey)

\* Map.set(key, value) on a map kept as a function
MapSet(m, k, v) == [i \in (DOMAIN m) \cup {k} |-> IF i = k THEN v ELSE m[i]]

EmptyMap == [i \in {} |-> Undefined]

(***************************************************************************)
(* SignalProtocolService: prekeys                                          *)
(***************************************************************************)
\* the one-time prekey stored under id by generation gen of generatePreKeys
PreKeyValue(gen, id) == <<"prekey", gen, id>>

\* this.preKeys.set(i, ...) for i = 1..100: an id already in the map keeps
\* its place in the insertion order, the ids not yet in it are appended in
\* increasing order
GeneratePreKeysLoop(ids) ==
  LET present == Range(ids)
      IsNew(i) == i \notin present
  IN ids \o SelectSeq([i \in 1 .. PreKeyCount |-> i], IsNew)

\* every id 1..100 is (re)set, so all stored values are of generation tick
GeneratePreKeys(pool, tick) == [gen |-> tick, ids |-> GeneratePreKeysLoop(pool.ids)]

GenerateSignedPreKey(idKeyPair, tick) ==
  LET keyPair == [present |-> TRUE, publicKey |-> Rnd(tick, "spkPub"),
                  privateKey |-> Rnd(tick, "spkPriv")]
  IN [present |-> TRUE,
      keyId |-> tick % KeyIdModulus,
      keyPair |-> keyPair,
      signature |-> <<"sig", keyPair.publicKey, idKeyPair.privateKey>>]

\* the state of the service after initialize() ran as draw number tick
InitializedIdentity(tick) ==
  [present |-> TRUE, publicKey |-> Rnd(tick, "idPub"), privateKey |-> Rnd(tick, "idPriv")]

Initialize(d) ==
  /\ identityKeyPair' = [identityKeyPair EXCEPT ![d] = InitializedIdentity(fresh)]
  /\ preKeys' = [preKeys EXCEPT ![d] = GeneratePreKeys(preKeys[d], fresh)]
  /\ signedPreKey' = [signedPreKey EXCEPT ![d] =
                        GenerateSignedPreKey(InitializedIdentity(fresh), fresh)]
  /\ fresh' = fresh + 1
  /\ bundleCount' = [bundleCount EXCEPT ![d] = 0]
  /\ issuedIds' = [issuedIds EXCEPT ![d] = {}]
  /\ lastCall' = [op |-> "initialize", dev |-> d, result |-> Ok(fresh)]
  /\ UNCHANGED <<registrationId, sessions, bundles, network, droppedChainKeys>>

\* generatePreKeyBundle; index is Math.floor(Math.random() * preKeyIds.length)
GeneratePreKeyBundle(d, index) ==
  LET needInit == ~identityKeyPair[d].present \/ ~signedPreKey[d].present
      idKey == IF needInit THEN InitializedIdentity(fresh) ELSE identityKeyPair[d]
      pool == IF needInit THEN GeneratePreKeys(preKeys[d], fresh) ELSE preKeys[d]
      spk == IF needInit THEN GenerateSignedPreKey(idKey, fresh) ELSE signedPreKey[d]
      hasKey == Len(pool.ids) > 0
      \* preKeyIds[NaN] and this.preKeys.get(undefined) are undefined
      randomPreKeyId == IF hasKey THEN pool.ids[index + 1] ELSE Undefined
      preKey == IF hasKey THEN PreKeyValue(pool.gen, randomPreKeyId) ELSE Undefined
      bundle == [present |-> TRUE,
                 registrationId |-> registrationId[d],
                 deviceId |-> 1,
                 preKeyId |-> randomPreKeyId,
                 preKey |-> preKey,
                 signedPreKeyId |-> spk.keyId,
                 signedPreKey |-> spk.keyPair.publicKey,
                 signedPreKeySignature |-> spk.signature,
                 identityKey |-> idKey.publicKey]
  IN /\ IF hasKey THEN index < Len(pool.ids) ELSE index = 0
     /\ identityKeyPair' = [identityKeyPair EXCEPT ![d] = idKey]
     /\ signedPreKey' = [signedPreKey EXCEPT ![d] = spk]
     /\ preKeys' = [preKeys EXCEPT ![d] = pool]
     /\ fresh' = IF needInit THEN fresh + 1 ELSE fresh
     /\ bundles' = [bundles EXCEPT ![d] = bundle]
     /\ bundleCount' = [bundleCount EXCEPT ![d] = (IF needInit THEN 0 ELSE @) + 1]
     /\ issuedIds' = [issuedIds EXCEPT ![d] =
                        (IF needInit THEN {} ELSE @) \cup {randomPreKeyId}]
     /\ lastCall' = [op |-> "generatePreKeyBundle", dev |-> d, result |-> Ok(bundle)]
     /\ UNCHANGED <<registrationId, sessions, network, droppedChainKeys>>

RECURSIVE DropFirst(_, _)
\* what is left of the insertion order once its first n keys are deleted
DropFirst(s, n) == IF n = 0 \/ s = <<>> THEN s ELSE DropFirst(Tail(s), n - 1)

RotateSignedPreKey(d) ==
  IF ~identityKeyPair[d].present
  THEN \* generateSignedPreKey reads this.identityKeyPair!.privateKey of null
       /\ lastCall' = [op |-> "rotateSignedPreKey", dev |-> d, result |-> Err("TypeError")]
       /\ UNCHANGED <<identityKeyPair, registrationId, sessions, preKeys, signedPreKey,
                      fresh, bundles, bundleCount, issuedIds, network, droppedChainKeys>>
  ELSE LET pool == preKeys[d]
           pruned == IF Len(pool.ids) > PreKeyPruneThreshold
                     THEN [pool EXCEPT !.ids = DropFirst(pool.ids, PreKeyPruneCount)]
                     ELSE pool
       IN /\ signedPreKey' = [signedPreKey EXCEPT ![d] =
                                GenerateSignedPreKey(identityKeyPair[d], fresh)]
          /\ preKeys' = [preKeys EXCEPT ![d] = pruned]
          /\ fresh' = fresh + 1
          /\ lastCall' = [op |-> "rotateSignedPreKey", dev |-> d, result |-> Ok(fresh)]
          /\ UNCHANGED <<identityKeyPair, registrationId, sessions, bundles, bundleCount,
                         issuedIds, network, droppedChainKeys>>

(***************************************************************************)
(* SignalProtocolService: sessions                                         *)
(***************************************************************************)
NewChain(key) == [key |-> key, index |-> 0, messageKeys |-> EmptyMap]

\* the Session built by initializeSession as draw number tick
X3dhSession(idKey, bundle, tick) ==
  LET ephPriv == Rnd(tick, "ephPriv")
      dh1 == CalculateDH(idKey.privateKey, bundle.signedPreKey)
      dh2 == CalculateDH(ephPriv, bundle.identityKey)
      dh3 == CalculateDH(ephPriv, bundle.signedPreKey)
      dh4 == IF bundle.preKey # Undefined
             THEN CalculateDH(ephPriv, bundle.preKey) ELSE Undefined
      masterSecret == DeriveMasterSecret(dh1, dh2, dh3, dh4)
      rootKey == DeriveRootKey(masterSecret)
      chainKey == DeriveChainKey(rootKey)
  IN [present |-> TRUE,
      sessionId |-> Rnd(tick, "uuid"),
      remoteIdentityKey |-> bundle.identityKey,
      rootKey |-> rootKey,
      sendingChain |-> NewChain(chainKey),
      receivingChains |-> <<>>,
      previousCounter |-> 0,
      remoteRegistrationId |-> bundle.registrationId]

\* ed25519.getSharedSecret throws on a key that is missing or not a curve
\* point encoding of 32 bytes
DhThrows(publicKey) == publicKey \in {Undefined, Malformed}

\* one of dh1 .. dh4 throws; dh4 is skipped when the bundle has no preKey
X3dhThrows(bundle) ==
  \/ DhThrows(bundle.signedPreKey)
  \/ DhThrows(bundle.identityKey)
  \/ bundle.preKey = Malformed

\* a session written to the map before its keys are derived
StoredSession_Early(old, idKey, bundle, tick) == X3dhSession(idKey, bundle, tick)

\* this.sessions.set is the last statement: a throw before it leaves the map
\* entry of the peer as it was
StoredSession(old, idKey, bundle, tick) ==
  IF X3dhThrows(bundle) THEN old ELSE X3dhSession(idKey, bundle, tick)

InitializeSession(d, userId, bundle) ==
  LET needInit == ~identityKeyPair[d].present
      idKey == IF needInit THEN InitializedIdentity(fresh) ELSE identityKeyPair[d]
  IN /\ bundle.present
     /\ identityKeyPair' = [identityKeyPair EXCEPT ![d] = idKey]
     /\ preKeys' = [preKeys EXCEPT ![d] =
                      IF needInit THEN GeneratePreKeys(@, fresh) ELSE @]
     /\ signedPreKey' = [signedPreKey EXCEPT ![d] =
                           IF needInit THEN GenerateSignedPreKey(idKey, fresh) ELSE @]
     /\ sessions' = [sessions EXCEPT ![d][userId] = StoredSession(@, idKey, bundle, fresh)]
     /\ fresh' = fresh + 1
     /\ bundleCount' = [bundleCount EXCEPT ![d] = IF needInit THEN 0 ELSE @]
     /\ issuedIds' = [issuedIds EXCEPT ![d] = IF needInit THEN {} ELSE @]
     /\ lastCall' = [op |-> "initializeSession", dev |-> d, peer |-> userId,
                     result |-> IF X3dhThrows(bundle) THEN Err("TypeError")
                                ELSE Ok(fresh)]
     /\ UNCHANGED <<registrationId, bundles, network, droppedChainKeys>>

\* the envelope encryptMessage returns; ciphertext is nonce followed by the box
Envelope(recipientId, nonce, box, tick) ==
  [id |-> Rnd(tick, "uuid"),
   conversationId |-> recipientId,
   senderId |-> "self",
   ciphertext |-> <<nonce, box>>,
   ephemeralPublicKey |-> Undefined,
   timestamp |-> tick,
   messageType |-> TextMessageType]

\* a sending chain that files the message key under the index after the advance
AdvancedSendingChain_PostIndex(chain, messageKey) ==
  [key |-> AdvanceChainKey(chain.key),
   index |-> chain.index + 1,
   messageKeys |-> MapSet(chain.messageKeys, chain.index + 1, messageKey)]

\* session.sendingChain after encryptMessage sealed under messageKey
AdvancedSendingChain(chain, messageKey) ==
  [key |-> AdvanceChainKey(chain.key),
   index |-> chain.index + 1,
   messageKeys |-> MapSet(chain.messageKeys, (chain.index + 1) - 1, messageKey)]

\* an encryptMessage that returns without a session and without an error
EncryptMessage_Silent(d, recipientId, message) ==
  /\ lastCall' = [op |-> "encryptMessage", dev |-> d, peer |-> recipientId,
                  result |-> Ok(Undefined)]
  /\ UNCHANGED <<signalVars, fresh>>

EncryptMessage(d, recipientId, message) ==
  LET session == sessions[d][recipientId] IN
  IF ~session.present
  THEN /\ lastCall' = [op |-> "encryptMessage", dev |-> d, peer |-> recipientId,
                       result |-> Err("SessionNotFound")]
       /\ UNCHANGED <<identityKeyPair, registrationId, sessions, preKeys, signedPreKey,
                      fresh, bundles, bundleCount, issuedIds, network, droppedChainKeys>>
  ELSE LET messageKey == DeriveMessageKey(session.sendingChain.key)
           nonce == Rnd(fresh, "nonce")
           box == SecretboxEasy(message, nonce, messageKey)
           env == Envelope(recipientId, nonce, box, fresh)
       IN /\ sessions' = [sessions EXCEPT ![d][recipientId].sendingChain =
                            AdvancedSendingChain(@, messageKey)]
          \* the old key's buffer is only unreferenced, never memzero'ed
          /\ droppedChainKeys' = [droppedChainKeys EXCEPT ![d] =
                                    @ \cup {session.sendingChain.key}]
          /\ network' = network \cup {[from |-> d, env |-> env]}
          /\ fresh' = fresh + 1
          /\ lastCall' = [op |-> "encryptMessage", dev |-> d, peer |-> recipientId,
                          result |-> Ok(env)]
          /\ UNCHANGED <<identityKeyPair, registrationId, preKeys, signedPreKey,
                         bundles, bundleCount, issuedIds>>

\* sodium.to_hex(theirEphemeralPublicKey)
ToHex(bytes) == <<"hex", bytes>>

RECURSIVE ChainIndex(_, _, _)
\* position of chainId in the insertion order of receivingChains, 0 if absent
ChainIndex(chains, chainId, i) ==
  IF i > Len(chains) THEN 0
  ELSE IF chains[i].chainId = chainId THEN i
  ELSE ChainIndex(chains, chainId, i + 1)

\* session.receivingChains.set(chainId, chain)
ChainsSet(chains, chainId, chain) ==
  LET at == ChainIndex(chains, chainId, 1)
      entry == [chainId |-> chainId, chain |-> chain]
  IN IF at = 0 THEN Append(chains, entry) ELSE [chains EXCEPT ![at] = entry]

\* the session after createReceivingChain(session, theirEphemeralPublicKey)
\* ran as draw number tick
CreateReceivingChain(session, theirEphemeralPublicKey, tick) ==
  LET sharedSecret == CalculateDH(Rnd(tick, "ratchetPriv"), theirEphemeralPublicKey)
      newRootKey == DeriveRootKey(sharedSecret)
      newChainKey == DeriveChainKey(newRootKey)
  IN [session EXCEPT
        !.receivingChains = ChainsSet(@, ToHex(theirEphemeralPublicKey),
                                      NewChain(newChainKey)),
        !.rootKey = newRootKey]

\* the chain createReceivingChain returns
CreatedChainKey(theirEphemeralPublicKey, tick) ==
  DeriveChainKey(DeriveRootKey(
      CalculateDH(Rnd(tick, "ratchetPriv"), theirEphemeralPublicKey)))

RECURSIVE FindMessageKey(_, _, _)
\* for (const [chainId, chain] of session.receivingChains)
\*   if (chain.messageKeys.has(messageType)) { messageKey = ...; break }
FindMessageKey(chains, messageType, i) ==
  IF i > Len(chains) THEN Undefined
  ELSE IF messageType \in DOMAIN chains[i].chain.messageKeys
       THEN chains[i].chain.messageKeys[messageType]
       ELSE FindMessageKey(chains, messageType, i + 1)

DecryptMessage(d, senderId, encrypted) ==
  LET session == sessions[d][senderId]
      call == [op |-> "decryptMessage", dev |-> d, peer |-> senderId,
               arg |-> encrypted]
      others == <<identityKeyPair, registrationId, preKeys, signedPreKey, bundles,
                  bundleCount, issuedIds, network, droppedChainKeys>>
  IN
  IF ~session.present
  THEN /\ lastCall' = call @@ [result |-> Err("SessionNotFound")]
       /\ UNCHANGED <<sessions, fresh>>
       /\ UNCHANGED others
  ELSE LET nonce == encrypted.ciphertext[1]
           ciphertext == encrypted.ciphertext[2]
           found == FindMessageKey(session.receivingChains, encrypted.messageType, 1)
       IN IF found # Undefined
          THEN /\ lastCall' = call @@ [result |-> SecretboxOpenEasy(ciphertext, nonce, found)]
               /\ UNCHANGED <<sessions, fresh>>
               /\ UNCHANGED others
          ELSE IF encrypted.ephemeralPublicKey = Undefined
          THEN \* calculateDH / sodium.to_hex of undefined throws before any write
               /\ lastCall' = call @@ [result |-> Err("TypeError")]
               /\ UNCHANGED <<sessions, fresh>>
               /\ UNCHANGED others
          ELSE LET their == encrypted.ephemeralPublicKey
                   messageKey == DeriveMessageKey(CreatedChainKey(their, fresh))
               IN /\ sessions' = [sessions EXCEPT ![d][senderId] =
                                    CreateReceivingChain(@, their, fresh)]
                  /\ fresh' = fresh + 1
                  /\ lastCall' = call @@
                        [result |-> SecretboxOpenEasy(ciphertext, nonce, messageKey)]
                  /\ UNCHANGED others

RECURSIVE ChainPosition(_)
\* how many times advanceChainKey was applied to reach a chain key
ChainPosition(chainKey) ==
  IF chainKey[1] = "auth" THEN 1 + ChainPosition(chainKey[3]) ELSE 0

\* the number of a message on its sending chain: 1 for the first one sealed
MessageNumber(env) == ChainPosition(env.ciphertext[2][2][4]) + 1

\* decryptMessage(senderId, encrypted), logged: which message of the chain
\* it was, what it held and what the call returned
Deliver(d, senderId, encrypted) ==
  /\ DecryptMessage(d, senderId, encrypted)
  /\ delivered' = Append(delivered, [number |-> MessageNumber(encrypted),
                                     sealed |-> encrypted.ciphertext[2][4],
                                     result |-> lastCall'.result])
  /\ UNCHANGED <<clock, timers, deletions, cancelled>>

\* an envelope of a peer whose implementation attaches its k-th ratchet key
PeerEnvelope(k, message) ==
  [id |-> <<"peer", "uuid", k>>,
   conversationId |-> "self",
   senderId |-> "peer",
   ciphertext |-> <<<<"peer", "nonce", k>>,
                    SecretboxEasy(message, <<"peer", "nonce", k>>, <<"peer", "messageKey", k>>)>>,
   ephemeralPublicKey |-> <<"peer", "ephemeralPublicKey", k>>,
   timestamp |-> 0,
   messageType |-> TextMessageType]

(***************************************************************************)
(* ForwardSecrecyService                                                   *)
(***************************************************************************)
\* sodium.crypto_scalarmult(privateKey, publicKey)
PerformDH(privateKey, publicKey) == <<"scalarmult", privateKey, publicKey>>

\* kdf(inputKey, info): info is encoded and then not used
FsKdf(inputKey, info) == Kdf(1, "MESSAFS", inputKey)

\* hmac(key, data) is sodium.crypto_auth(data, key)
Hmac(key, data) == CryptoAuth(data, key)

PerformRatchetStep(currentRootKey) == Hmac(currentRootKey, "RATCHET_STEP")

\* type is "SENDING" or "RECEIVING" (type.toUpperCase())
DeriveNewChainKey(rootKey, type) == FsKdf(rootKey, <<"CHAIN_KEY_", type>>)

\* how many entries chains.sort((a, b) => a[1].index - b[1].index), a stable
\* sort, puts before the entry at position i
SortRank(chains, i) ==
  Cardinality({j \in DOMAIN chains :
                 \/ chains[j].chain.index < chains[i].chain.index
                 \/ chains[j].chain.index = chains[i].chain.index /\ j < i})

RECURSIVE KeepFrom(_, _, _)
\* the entries of chains, from position i on, that cleanupOldKeys does not delete
KeepFrom(chains, toDelete, i) ==
  IF i > Len(chains) THEN <<>>
  ELSE IF SortRank(chains, i) < toDelete
       THEN KeepFrom(chains, toDelete, i + 1)
       ELSE <<chains[i]>> \o KeepFrom(chains, toDelete, i + 1)

\* a cleanup that keeps the five entries inserted first
CleanupOldKeys_KeepFirst(chains) ==
  IF Len(chains) > MaxReceivingChains THEN SubSeq(chains, 1, MaxReceivingChains)
  ELSE chains

CleanupOldKeys(chains) ==
  IF Len(chains) > MaxReceivingChains
  THEN KeepFrom(chains, Len(chains) - MaxReceivingChains, 1)
  ELSE chains

EstablishRatchet(sessionId, theirPublicKey) ==
  LET ourPrivateKey == Rnd(fresh, "boxPriv")
      sharedSecret == PerformDH(ourPrivateKey, theirPublicKey)
      rootKey == FsKdf(sharedSecret, "ROOT_KEY")
      sendingChain == DeriveNewChainKey(rootKey, "SENDING")
      session == [present |-> TRUE,
                  sessionId |-> sessionId,
                  remoteIdentityKey |-> theirPublicKey,
                  rootKey |-> rootKey,
                  sendingChain |-> NewChain(sendingChain),
                  receivingChains |-> <<>>,
                  previousCounter |-> 0,
                  remoteRegistrationId |-> 0]
  IN /\ fsSessions' = [fsSessions EXCEPT ![sessionId] = session]
     /\ fsRotations' = [fsRotations EXCEPT ![sessionId] = 0]
     \* the buffers of the session this one replaces are no longer reachable
     /\ fsZeroed' = [fsZeroed EXCEPT ![sessionId] = {}]
     /\ fresh' = fresh + 1
     /\ lastCall' = [op |-> "establishRatchet", session |-> sessionId,
                     result |-> Ok(Undefined)]

\* the entries cleanupOldKeys deletes: toDelete = chains.slice(0, length - 5)
\* of the sorted entries
RemovedChains(chains) ==
  {chains[i] : i \in {j \in DOMAIN chains :
                        SortRank(chains, j) < Len(chains) - MaxReceivingChains}}

\* the buffers cleanupOldKeys hands to sodium.memzero: the key and the stored
\* message keys of every chain it deletes
ZeroedByCleanup(chains) ==
  UNION {{e.chain.key} \cup Range(e.chain.messageKeys) : e \in RemovedChains(chains)}

\* the session after rotateKeys, cleanupOldKeys included
RotatedSession(session) ==
  LET newRootKey == PerformRatchetStep(session.rootKey)
      newSendingChain == DeriveNewChainKey(newRootKey, "SENDING")
      sendingChain == NewChain(newSendingChain)
      \* chainId is taken from the sending chain that was just installed
      chainId == ToHex(sendingChain.key)
  IN [session EXCEPT
        !.rootKey = newRootKey,
        !.sendingChain = sendingChain,
        !.receivingChains = CleanupOldKeys(ChainsSet(@, chainId, sendingChain))]

\* receivingChains as rotateKeys hands it to cleanupOldKeys
RotatedChains(session) ==
  LET sendingChain == RotatedSession(session).sendingChain
  IN ChainsSet(session.receivingChains, ToHex(sendingChain.key), sendingChain)

\* what rotateKeys zeroes: the root key it was called with, in
\* performRatchetStep, and what cleanupOldKeys zeroes
ZeroedByRotation(session) ==
  {session.rootKey} \cup ZeroedByCleanup(RotatedChains(session))

RotateKeys(sessionId) ==
  LET session == fsSessions[sessionId] IN
  IF ~session.present
  THEN /\ lastCall' = [op |-> "rotateKeys", session |-> sessionId,
                       result |-> Err("SessionNotFound")]
       /\ UNCHANGED <<fsSessions, fsRotations, fsZeroed, fresh>>
  ELSE /\ fsSessions' = [fsSessions EXCEPT ![sessionId] = RotatedSession(session)]
       /\ fsRotations' = [fsRotations EXCEPT ![sessionId] = @ + 1]
       /\ fsZeroed' = [fsZeroed EXCEPT ![sessionId] = @ \cup ZeroedByRotation(session)]
       /\ lastCall' = [op |-> "rotateKeys", session |-> sessionId,
                       result |-> Ok(Undefined)]
       /\ UNCHANGED fresh

\* a rotateKeys that hands back the buffer it was given
QrcRotateKeys_InPlace(currentSecret, epoch, tick) == currentSecret

\* QuantumResistantCrypto.rotateKeys(currentSecret, epoch) as draw number
\* tick: crypto_auth(currentSecret, salt), then the subkey numbered epoch
QrcRotateKeys(currentSecret, epoch, tick) ==
  Kdf(epoch, "ROTATION", CryptoAuth(currentSecret, Rnd(tick, "salt")))

\* performQuantumRatchet(sessionId)
PerformQuantumRatchet(sessionId) ==
  LET session == fsSessions[sessionId] IN
  IF ~session.present
  THEN /\ lastCall' = [op |-> "performQuantumRatchet", session |-> sessionId,
                       result |-> Ok(Undefined)]
       /\ UNCHANGED <<fsSessions, fsRotations, fsZeroed, fresh>>
  ELSE LET newSecret == QrcRotateKeys(session.rootKey, session.sendingChain.index, fresh)
           renewed == [session EXCEPT !.rootKey = newSecret]
           rotate == renewed.sendingChain.index % RotationInterval = 0
       IN /\ fsSessions' = [fsSessions EXCEPT ![sessionId] =
                              IF rotate THEN RotatedSession(renewed) ELSE renewed]
          /\ fsRotations' = [fsRotations EXCEPT ![sessionId] =
                               IF rotate THEN @ + 1 ELSE @]
          \* rotateKeys of QuantumResistantCrypto zeroes the secret it was given
          /\ fsZeroed' = [fsZeroed EXCEPT ![sessionId] =
                            @ \cup {session.rootKey}
                              \cup (IF rotate THEN ZeroedByRotation(renewed) ELSE {})]
          /\ fresh' = fresh + 1
          /\ lastCall' = [op |-> "performQuantumRatchet", session |-> sessionId,
                          newSecret |-> newSecret, result |-> Ok(Undefined)]

(***************************************************************************)
(* MLSService                                                              *)
(***************************************************************************)
\* libsodium is taken to be ready in the process (sodium.ready resolved), also
\* for a service whose initialize() did not run.
\* sodium.crypto_aead_chacha20poly1305_ietf_encrypt(message, aad, null, nonce, key)
AeadEncrypt(message, aad, nonce, key) == <<"aead", key, nonce, aad, message>>

\* ..._decrypt(null, ciphertext, aad, nonce, key): throws unless the key, the
\* nonce and the associated data are those the ciphertext was sealed with
AeadDecrypt(ciphertext, aad, nonce, key) ==
  IF ciphertext[1] = "aead" /\ ciphertext[2] = key /\ ciphertext[3] = nonce
     /\ ciphertext[4] = aad
  THEN Ok(ciphertext[5])
  ELSE Err("DecryptionFailure")

\* fetchCredential(userId) at time tick
FetchCredential(userId, tick) == <<"credential", userId, tick>>

\* one level of the reduction: adjacent nodes are hashed, an unpaired last node
\* is carried; reading .length of an undefined node of a pair throws
NextLevel(level) ==
  LET n == Len(level)
      paired == 2 * (n \div 2)
  IN IF \E i \in 1 .. paired : level[i] = Undefined
     THEN [ok |-> FALSE, level |-> <<>>]
     ELSE [ok |-> TRUE,
           level |-> [k \in 1 .. ((n + 1) \div 2) |->
                        IF 2 * k <= n
                        THEN GenericHash(<<"concat", level[2 * k - 1], level[2 * k]>>, Undefined)
                        ELSE level[2 * k - 1]]]

RECURSIVE ReduceLevels(_)
\* while (currentLevel.length > 1) { ... }; return currentLevel[0]
ReduceLevels(level) ==
  IF Len(level) <= 1 THEN [ok |-> TRUE, hash |-> level[1]]
  ELSE LET next == NextLevel(level)
       IN IF next.ok THEN ReduceLevels(next.level)
          ELSE [ok |-> FALSE, hash |-> Undefined]

ComputeTreeHash(members) ==
  LET leaves == [i \in 1 .. Len(members) |-> members[i].keyPackage]
  IN IF Len(leaves) = 0 THEN [ok |-> TRUE, hash |-> <<"zero", 32>>]
     ELSE ReduceLevels(leaves)

\* deriveGroupKey from the fields it reads; treeHash.length of undefined throws
GroupKey(groupId, epoch, treeHash) ==
  Kdf(epoch, "GROUPKEY",
      GenericHash(<<"concat", treeHash, <<"MESSA_GROUP_KEY", groupId, epoch>>>>, Undefined))

DeriveGroupKey(group) ==
  IF group.treeHash = Undefined THEN Err("TypeError")
  ELSE Ok(GroupKey(group.groupId, group.epoch, group.treeHash))

\* updateEpoch without group.epoch++
UpdateEpoch_Frozen(group) ==
  LET th == ComputeTreeHash(group.members)
  IN IF th.ok
     THEN [ok |-> TRUE, group |-> [group EXCEPT !.treeHash = th.hash]]
     ELSE [ok |-> FALSE, group |-> group]

\* updateEpoch: the epoch is raised first, then the tree hash is recomputed;
\* when computeTreeHash throws the raised epoch stays
UpdateEpoch(group) ==
  LET th == ComputeTreeHash(group.members)
  IN IF th.ok
     THEN [ok |-> TRUE, group |-> [group EXCEPT !.epoch = @ + 1, !.treeHash = th.hash]]
     ELSE [ok |-> FALSE, group |-> [group EXCEPT !.epoch = @ + 1]]

\* welcomeData of sendWelcomeMessages for recipient memberId, the i-th of the call
WelcomeData(group, memberId, tick, i) ==
  [to |-> memberId,
   groupId |-> group.groupId,
   epoch |-> group.epoch,
   treeHash |-> group.treeHash,
   members |-> [k \in 1 .. Len(group.members) |->
                  [userId |-> group.members[k].userId,
                   keyPackage |-> group.members[k].keyPackage]],
   groupSecrets |-> RndAt(tick, "groupSecrets", i)]

\* sendWelcomeMessages(group, newMembers) run by userId: the welcomes it logs.
\* hybridEncrypt is handed 32 random bytes as the recipient's Kyber public key;
\* kemOk says whether the KEM accepts them or throws.
\* Array.from of an undefined treeHash or keyPackage throws.
SendWelcomeMessages(userId, group, newMembers, tick, kemOk) ==
  LET recipients == SelectSeq(newMembers, LAMBDA m : m # userId)
  IN IF Len(recipients) = 0 THEN [ok |-> TRUE, error |-> "none", sent |-> {}]
     ELSE IF \/ group.treeHash = Undefined
             \/ \E k \in 1 .. Len(group.members) : group.members[k].keyPackage = Undefined
     THEN [ok |-> FALSE, error |-> "TypeError", sent |-> {}]
     ELSE IF kemOk
     THEN [ok |-> TRUE, error |-> "none",
           sent |-> {WelcomeData(group, recipients[i], tick, i) : i \in 1 .. Len(recipients)}]
     ELSE [ok |-> FALSE, error |-> "KemFailure", sent |-> {}]

MlsInitialize(u) ==
  /\ keyPackages' = [keyPackages EXCEPT ![u] = Rnd(fresh, "keyPackage")]
  /\ credentials' = [credentials EXCEPT ![u] = <<"credential", u, fresh>>]
  /\ fresh' = fresh + 1
  /\ lastCall' = [op |-> "mlsInitialize", user |-> u, result |-> Ok(Undefined)]
  /\ UNCHANGED <<groups, welcomes, groupNetwork>>

CreateGroup(u, groupId, memberIds, kemOk) ==
  LET call == [op |-> "createGroup", user |-> u, group |-> groupId]
      creator == [userId |-> u, keyPackage |-> keyPackages[u],
                  credential |-> credentials[u], addedBy |-> u, addedAt |-> fresh]
      otherIds == SelectSeq(memberIds, LAMBDA m : m # u)
      others == [i \in 1 .. Len(otherIds) |->
                   [userId |-> otherIds[i],
                    keyPackage |-> RndAt(fresh, "keyPackage", i),
                    credential |-> FetchCredential(otherIds[i], fresh),
                    addedBy |-> u, addedAt |-> fresh]]
      members == <<creator>> \o others
      th == ComputeTreeHash(members)
      groupSession == [present |-> TRUE, groupId |-> groupId, epoch |-> 0,
                       treeHash |-> th.hash, members |-> members,
                       pendingProposals |-> <<>>]
      welcome == SendWelcomeMessages(u, groupSession, memberIds, fresh, kemOk)
  IN
  IF groups[u][groupId].present
  THEN /\ lastCall' = call @@ [result |-> Err("GroupExists")]
       /\ UNCHANGED <<groups, welcomes, fresh>>
       /\ UNCHANGED <<keyPackages, credentials, groupNetwork>>
  ELSE IF ~th.ok
  THEN /\ lastCall' = call @@ [result |-> Err("TypeError")]
       /\ fresh' = fresh + 1
       /\ UNCHANGED <<groups, welcomes>>
       /\ UNCHANGED <<keyPackages, credentials, groupNetwork>>
  ELSE /\ groups' = [groups EXCEPT ![u][groupId] = groupSession]
       /\ welcomes' = welcomes \cup welcome.sent
       /\ lastCall' = call @@ [result |-> IF welcome.ok THEN Ok(groupSession)
                                          ELSE Err(welcome.error)]
       /\ fresh' = fresh + 1
       /\ UNCHANGED <<keyPackages, credentials, groupNetwork>>

\* a findIndex that answers with the first member, whoever is asked for
FindMember_First(members, userId, i) == IF Len(members) >= 1 THEN 1 ELSE 0

RECURSIVE FindMember(_, _, _)
\* group.members.findIndex(m => m.userId === userId), from 1; 0 when absent
FindMember(members, userId, i) ==
  IF i > Len(members) THEN 0
  ELSE IF members[i].userId = userId THEN i
  ELSE FindMember(members, userId, i + 1)

\* group.pendingProposals.filter(p => p.id !== proposal.id)
WithoutProposal(group, proposal) ==
  [group EXCEPT !.pendingProposals = SelectSeq(@, LAMBDA q : q.id # proposal.id)]

\* a processProposal that applies what it is given without validating it
ApplyProposal_Unchecked(userId, group, proposal, tick, kemOk) ==
  LET up == UpdateEpoch(group) IN
  [group |-> up.group, sent |-> {},
   result |-> IF up.ok THEN Ok(Undefined) ELSE Err("TypeError")]

\* processProposal on a registered group, run by userId: the group it leaves,
\* the welcomes it logs and what it returns
ApplyProposal(userId, group, proposal, tick, kemOk) ==
  IF proposal.type = "add"
  THEN IF proposal.target = NoTarget \/ proposal.data = Undefined
       THEN [group |-> group, sent |-> {}, result |-> Err("ProposalInvalid")]
       ELSE LET member == [userId |-> proposal.target, keyPackage |-> proposal.data,
                           credential |-> FetchCredential(proposal.target, tick),
                           addedBy |-> proposal.proposer, addedAt |-> tick]
                up == UpdateEpoch([group EXCEPT !.members = Append(@, member)])
                welcome == SendWelcomeMessages(userId, up.group, <<proposal.target>>,
                                               tick, kemOk)
            IN IF ~up.ok
               THEN [group |-> up.group, sent |-> {}, result |-> Err("TypeError")]
               ELSE IF ~welcome.ok
               THEN [group |-> up.group, sent |-> {}, result |-> Err(welcome.error)]
               ELSE [group |-> WithoutProposal(up.group, proposal),
                     sent |-> welcome.sent, result |-> Ok(Undefined)]
  ELSE IF proposal.type = "remove"
  THEN IF proposal.target = NoTarget
       THEN [group |-> group, sent |-> {}, result |-> Err("ProposalInvalid")]
       ELSE LET up == UpdateEpoch([group EXCEPT !.members =
                         SelectSeq(@, LAMBDA m : m.userId # proposal.target)])
            IN IF ~up.ok
               THEN [group |-> up.group, sent |-> {}, result |-> Err("TypeError")]
               ELSE [group |-> WithoutProposal(up.group, proposal),
                     sent |-> {}, result |-> Ok(Undefined)]
  ELSE \* update
       LET memberIndex == FindMember(group.members, proposal.proposer, 1)
       IN IF memberIndex >= 1 /\ proposal.data # Undefined
          THEN LET up == UpdateEpoch([group EXCEPT
                            !.members[memberIndex].keyPackage = proposal.data])
               IN IF ~up.ok
                  THEN [group |-> up.group, sent |-> {}, result |-> Err("TypeError")]
                  ELSE [group |-> WithoutProposal(up.group, proposal),
                        sent |-> {}, result |-> Ok(Undefined)]
          ELSE [group |-> WithoutProposal(group, proposal),
                sent |-> {}, result |-> Ok(Undefined)]

ProcessProposal(u, groupId, proposal, kemOk) ==
  LET call == [op |-> "processProposal", user |-> u, group |-> groupId,
               proposal |-> proposal]
      group == groups[u][groupId]
  IN
  IF ~group.present
  THEN /\ lastCall' = call @@ [result |-> Err("GroupNotFound")]
       /\ UNCHANGED <<groups, welcomes, fresh>>
       /\ UNCHANGED <<keyPackages, credentials, groupNetwork>>
  ELSE LET r == ApplyProposal(u, group, proposal, fresh, kemOk)
       IN /\ groups' = [groups EXCEPT ![u][groupId] = r.group]
          /\ welcomes' = welcomes \cup r.sent
          /\ lastCall' = call @@ [result |-> r.result]
          /\ fresh' = fresh + 1
          /\ UNCHANGED <<keyPackages, credentials, groupNetwork>>

AddMember(u, groupId, userId, kemOk) ==
  LET call == [op |-> "addMember", user |-> u, group |-> groupId, target |-> userId]
      group == groups[u][groupId]
      proposal == [id |-> Rnd(fresh, "uuid"), type |-> "add", proposer |-> u,
                   target |-> userId, data |-> RndAt(fresh, "keyPackage", 1),
                   timestamp |-> fresh]
  IN
  IF ~group.present
  THEN /\ lastCall' = call @@ [result |-> Err("GroupNotFound")]
       /\ UNCHANGED <<groups, welcomes, fresh>>
       /\ UNCHANGED <<keyPackages, credentials, groupNetwork>>
  ELSE IF FindMember(group.members, userId, 1) # 0
  THEN /\ lastCall' = call @@ [result |-> Err("UserAlreadyInGroup")]
       /\ UNCHANGED <<groups, welcomes, fresh>>
       /\ UNCHANGED <<keyPackages, credentials, groupNetwork>>
  ELSE LET queued == [group EXCEPT !.pendingProposals = Append(@, proposal)]
           r == ApplyProposal(u, queued, proposal, fresh, kemOk)
       IN /\ groups' = [groups EXCEPT ![u][groupId] = r.group]
          /\ welcomes' = welcomes \cup r.sent
          /\ lastCall' = call @@ [result |-> r.result]
          /\ fresh' = fresh + 1
          /\ UNCHANGED <<keyPackages, credentials, groupNetwork>>

RemoveMember(u, groupId, userId) ==
  LET call == [op |-> "removeMember", user |-> u, group |-> groupId, target |-> userId]
      group == groups[u][groupId]
      proposal == [id |-> Rnd(fresh, "uuid"), type |-> "remove", proposer |-> u,
                   target |-> userId, data |-> Undefined, timestamp |-> fresh]
  IN
  IF ~group.present
  THEN /\ lastCall' = call @@ [result |-> Err("GroupNotFound")]
       /\ UNCHANGED <<groups, welcomes, fresh>>
       /\ UNCHANGED <<keyPackages, credentials, groupNetwork>>
  ELSE LET queued == [group EXCEPT !.pendingProposals = Append(@, proposal)]
           r == ApplyProposal(u, queued, proposal, fresh, TRUE)
       IN /\ groups' = [groups EXCEPT ![u][groupId] = r.group]
          /\ lastCall' = call @@ [result |-> r.result]
          /\ fresh' = fresh + 1
          /\ UNCHANGED <<welcomes, keyPackages, credentials, groupNetwork>>

\* encrypted.ciphertext of a group envelope: nonce, aad length, aad, ciphertext
GroupCiphertext(nonce, aad, ciphertext) == <<nonce, aad, ciphertext>>

\* an encryptGroupMessage that returns without a group and without an error
EncryptGroupMessage_Silent(u, groupId, message) ==
  /\ lastCall' = [op |-> "encryptGroupMessage", user |-> u, group |-> groupId,
                  result |-> Ok(Undefined)]
  /\ UNCHANGED <<mlsVars, fresh>>

EncryptGroupMessage(u, groupId, message) ==
  LET call == [op |-> "encryptGroupMessage", user |-> u, group |-> groupId]
      group == groups[u][groupId]
      others == <<groups, welcomes, keyPackages, credentials>>
  IN
  IF ~group.present
  THEN /\ lastCall' = call @@ [result |-> Err("GroupNotFound")]
       /\ UNCHANGED <<groupNetwork, fresh>>
       /\ UNCHANGED others
  ELSE LET groupKey == DeriveGroupKey(group) IN
       IF ~IsOk(groupKey)
       THEN /\ lastCall' = call @@ [result |-> groupKey]
            /\ UNCHANGED <<groupNetwork, fresh>>
            /\ UNCHANGED others
       ELSE LET nonce == Rnd(fresh, "nonce")
                aad == [epoch |-> group.epoch, sender |-> u, timestamp |-> fresh]
                ciphertext == AeadEncrypt(message, aad, nonce, groupKey[2])
                env == [id |-> Rnd(fresh, "uuid"),
                        conversationId |-> groupId,
                        senderId |-> u,
                        ciphertext |-> GroupCiphertext(nonce, aad, ciphertext),
                        timestamp |-> fresh,
                        messageType |-> GroupMessageType]
            IN /\ groupNetwork' = groupNetwork \cup {[from |-> u, env |-> env]}
               /\ fresh' = fresh + 1
               /\ lastCall' = call @@ [result |-> Ok(env)]
               /\ UNCHANGED others

\* decryptGroupMessage without the comparison of aadData.epoch to group.epoch
OpenGroupMessage_NoFence(group, encrypted) ==
  LET nonce == encrypted.ciphertext[1]
      aad == encrypted.ciphertext[2]
      ciphertext == encrypted.ciphertext[3]
      groupKey == DeriveGroupKey(group)
  IN IF ~IsOk(groupKey) THEN groupKey
     ELSE AeadDecrypt(ciphertext, aad, nonce, groupKey[2])

\* the result of decryptGroupMessage on a registered group
OpenGroupMessage(group, encrypted) ==
  LET nonce == encrypted.ciphertext[1]
      aad == encrypted.ciphertext[2]
      ciphertext == encrypted.ciphertext[3]
      groupKey == DeriveGroupKey(group)
  IN IF aad.epoch # group.epoch THEN Err("EpochMismatch")
     ELSE IF ~IsOk(groupKey) THEN groupKey
     ELSE AeadDecrypt(ciphertext, aad, nonce, groupKey[2])

DecryptGroupMessage(u, groupId, encrypted) ==
  LET call == [op |-> "decryptGroupMessage", user |-> u, group |-> groupId,
               arg |-> encrypted]
      group == groups[u][groupId]
  IN /\ lastCall' = call @@
          [result |-> IF ~group.present THEN Err("GroupNotFound")
                      ELSE OpenGroupMessage(group, encrypted)]
     /\ UNCHANGED <<mlsVars, fresh>>

\* an envelope whose associated data a sender or a relay re-tagged with epoch e
Retagged(env, e) == [env EXCEPT !.ciphertext[2].epoch = e]

(***************************************************************************)
(* SignalProtocolService.encryptMessage, one step per await                *)
(***************************************************************************)
\* encryptMessage up to its first await: the session is looked up and
\* deriveMessageKey reads session.sendingChain.key
EncryptStart(c, d, recipientId, message) ==
  LET session == sessions[d][recipientId] IN
  /\ pending[c].pc = "idle"
  /\ IF ~session.present
     THEN /\ lastCall' = [op |-> "encryptMessage", dev |-> d, peer |-> recipientId,
                          result |-> Err("SessionNotFound")]
          /\ UNCHANGED pending
     ELSE /\ pending' = [pending EXCEPT ![c] =
                           [pc |-> "derived", dev |-> d, peer |-> recipientId,
                            message |-> message,
                            messageKey |-> DeriveMessageKey(session.sendingChain.key)]]
          /\ UNCHANGED lastCall
  /\ UNCHANGED <<signalVars, fresh>>

\* from the first await to the second: the message is sealed and
\* advanceChainKey reads session.sendingChain.key
EncryptSeal(c) ==
  LET call == pending[c]
      nonce == Rnd(fresh, "nonce")
      box == SecretboxEasy(call.message, nonce, call.messageKey)
  IN /\ call.pc = "derived"
     /\ pending' = [pending EXCEPT ![c] =
                      [pc |-> "advanced", dev |-> call.dev, peer |-> call.peer,
                       messageKey |-> call.messageKey,
                       env |-> Envelope(call.peer, nonce, box, fresh),
                       newKey |-> AdvanceChainKey(
                                    sessions[call.dev][call.peer].sendingChain.key)]]
     /\ fresh' = fresh + 1
     /\ UNCHANGED <<signalVars, lastCall>>

\* after the second await: the advanced key is stored, the index is raised,
\* the message key is kept and the envelope is returned
EncryptCommit(c) ==
  LET call == pending[c]
      chain == sessions[call.dev][call.peer].sendingChain
  IN /\ call.pc = "advanced"
     /\ sessions' = [sessions EXCEPT ![call.dev][call.peer].sendingChain =
                       [key |-> call.newKey,
                        index |-> chain.index + 1,
                        messageKeys |-> MapSet(chain.messageKeys, (chain.index + 1) - 1,
                                               call.messageKey)]]
     /\ droppedChainKeys' = [droppedChainKeys EXCEPT ![call.dev] = @ \cup {chain.key}]
     /\ network' = network \cup {[from |-> call.dev, env |-> call.env]}
     /\ pending' = [pending EXCEPT ![c] = Idle]
     /\ lastCall' = [op |-> "encryptMessage", dev |-> call.dev, peer |-> call.peer,
                     result |-> Ok(call.env)]
     /\ UNCHANGED <<identityKeyPair, registrationId, preKeys, signedPreKey,
                    bundles, bundleCount, issuedIds, fresh>>

(***************************************************************************)
(* MLSService methods, one step per await that separates accesses to the   *)
(* group                                                                   *)
(***************************************************************************)
\* a call that ends: its result is reported and its slot is free again
GroupCallEnds(c, call, result) ==
  /\ groupPending' = [groupPending EXCEPT ![c] = Idle]
  /\ lastCall' = call @@ [result |-> result]

\* encryptGroupMessage up to `await this.deriveGroupKey(group)`: the key is
\* computed from the epoch and the treeHash the group holds now
GroupEncryptStart(c, u, groupId, message) ==
  LET call == [op |-> "encryptGroupMessage", user |-> u, group |-> groupId]
      group == groups[u][groupId]
      groupKey == DeriveGroupKey(group)
  IN /\ groupPending[c].pc = "idle"
     /\ IF ~group.present
        THEN lastCall' = call @@ [result |-> Err("GroupNotFound")] /\ UNCHANGED groupPending
        ELSE IF ~IsOk(groupKey)
        THEN lastCall' = call @@ [result |-> groupKey] /\ UNCHANGED groupPending
        ELSE /\ groupPending' = [groupPending EXCEPT ![c] =
                  [pc |-> "gDerived", call |-> call, message |-> message,
                   groupKey |-> groupKey[2]]]
             /\ UNCHANGED lastCall
     /\ UNCHANGED <<mlsVars, fresh>>

\* after the await: the associated data takes the epoch the group holds now
GroupEncryptSeal(c) ==
  LET p == groupPending[c]
      u == p.call.user
      group == groups[u][p.call.group]
      nonce == Rnd(fresh, "nonce")
      aad == [epoch |-> group.epoch, sender |-> u, timestamp |-> fresh]
      env == [id |-> Rnd(fresh, "uuid"),
              conversationId |-> p.call.group,
              senderId |-> u,
              ciphertext |-> GroupCiphertext(nonce, aad,
                                AeadEncrypt(p.message, aad, nonce, p.groupKey)),
              timestamp |-> fresh,
              messageType |-> GroupMessageType]
  IN /\ p.pc = "gDerived"
     /\ groupNetwork' = groupNetwork \cup {[from |-> u, env |-> env]}
     /\ fresh' = fresh + 1
     /\ GroupCallEnds(c, p.call, Ok(env))
     /\ UNCHANGED <<groups, keyPackages, credentials, welcomes>>

\* addMember up to `await this.fetchKeyPackage(userId)`
AddStart(c, u, groupId, userId) ==
  LET call == [op |-> "addMember", user |-> u, group |-> groupId, target |-> userId]
      group == groups[u][groupId]
  IN /\ groupPending[c].pc = "idle"
     /\ IF ~group.present
        THEN /\ lastCall' = call @@ [result |-> Err("GroupNotFound")]
             /\ UNCHANGED <<groupPending, fresh>>
        ELSE IF FindMember(group.members, userId, 1) # 0
        THEN /\ lastCall' = call @@ [result |-> Err("UserAlreadyInGroup")]
             /\ UNCHANGED <<groupPending, fresh>>
        ELSE /\ groupPending' = [groupPending EXCEPT ![c] =
                  [pc |-> "aFetched", call |-> call,
                   proposal |-> [id |-> Rnd(fresh, "uuid"), type |-> "add",
                                 proposer |-> u, target |-> userId,
                                 data |-> RndAt(fresh, "keyPackage", 1),
                                 timestamp |-> fresh]]]
             /\ fresh' = fresh + 1
             /\ UNCHANGED lastCall
     /\ UNCHANGED mlsVars

\* the proposal is pushed and processProposal runs up to
\* `await this.fetchCredential(proposal.target)`
AddQueue(c) ==
  LET p == groupPending[c] IN
  /\ p.pc = "aFetched"
  /\ groups' = [groups EXCEPT ![p.call.user][p.call.group].pendingProposals =
                  Append(@, p.proposal)]
  /\ groupPending' = [groupPending EXCEPT ![c].pc = "aQueued"]
  /\ UNCHANGED <<keyPackages, credentials, welcomes, groupNetwork, fresh, lastCall>>

\* the member is pushed and updateEpoch runs up to
\* `await this.computeTreeHash(group.members)`: the epoch is already raised
AddApply(c) ==
  LET p == groupPending[c]
      group == groups[p.call.user][p.call.group]
      member == [userId |-> p.proposal.target, keyPackage |-> p.proposal.data,
                 credential |-> FetchCredential(p.proposal.target, p.proposal.timestamp),
                 addedBy |-> p.proposal.proposer, addedAt |-> p.proposal.timestamp]
      members == Append(group.members, member)
  IN /\ p.pc = "aQueued"
     /\ groups' = [groups EXCEPT ![p.call.user][p.call.group] =
                     [group EXCEPT !.members = members, !.epoch = @ + 1]]
     /\ groupPending' = [groupPending EXCEPT ![c] =
                           [pc |-> "aApplied", call |-> p.call, proposal |-> p.proposal,
                            treeHash |-> ComputeTreeHash(members)]]
     /\ UNCHANGED <<keyPackages, credentials, welcomes, groupNetwork, fresh, lastCall>>

\* updateEpoch resumes: the tree hash computed before the await is stored
EpochHashStored(c, from, to) ==
  LET p == groupPending[c] IN
  /\ p.pc = from
  /\ IF p.treeHash.ok
     THEN /\ groups' = [groups EXCEPT ![p.call.user][p.call.group].treeHash =
                          p.treeHash.hash]
          /\ groupPending' = [groupPending EXCEPT ![c] =
                                [pc |-> to, call |-> p.call, proposal |-> p.proposal]]
          /\ UNCHANGED lastCall
     ELSE /\ GroupCallEnds(c, p.call, Err("TypeError"))
          /\ UNCHANGED groups
  /\ UNCHANGED <<keyPackages, credentials, welcomes, groupNetwork, fresh>>

\* sendWelcomeMessages runs up to `await this.exportGroupSecrets(group)`:
\* welcomeData is read from the group as it is now
AddWelcome(c) ==
  LET p == groupPending[c]
      u == p.call.user
      group == groups[u][p.call.group]
      welcome == SendWelcomeMessages(u, group, <<p.proposal.target>>,
                                     p.proposal.timestamp, TRUE)
  IN /\ p.pc = "aHashed"
     /\ IF welcome.ok
        THEN /\ groupPending' = [groupPending EXCEPT ![c] =
                   [pc |-> "aWelcomed", call |-> p.call, proposal |-> p.proposal,
                    sent |-> welcome.sent]]
             /\ UNCHANGED lastCall
        ELSE GroupCallEnds(c, p.call, Err(welcome.error))
     /\ UNCHANGED <<mlsVars, fresh>>

\* hybridEncrypt returns or throws; the welcome is logged and the processed
\* proposal is dropped from pendingProposals
AddFinish(c, kemOk) ==
  LET p == groupPending[c] IN
  /\ p.pc = "aWelcomed"
  /\ IF kemOk \/ p.sent = {}
     THEN /\ welcomes' = welcomes \cup p.sent
          /\ groups' = [groups EXCEPT ![p.call.user][p.call.group] =
                          WithoutProposal(@, p.proposal)]
          /\ GroupCallEnds(c, p.call, Ok(Undefined))
     ELSE /\ GroupCallEnds(c, p.call, Err("KemFailure"))
          /\ UNCHANGED <<groups, welcomes>>
  /\ UNCHANGED <<keyPackages, credentials, groupNetwork, fresh>>

\* removeMember up to the await in updateEpoch: the proposal is pushed, the
\* member is filtered out and the epoch is raised
RemoveStart(c, u, groupId, userId) ==
  LET call == [op |-> "removeMember", user |-> u, group |-> groupId, target |-> userId]
      group == groups[u][groupId]
      proposal == [id |-> Rnd(fresh, "uuid"), type |-> "remove", proposer |-> u,
                   target |-> userId, data |-> Undefined, timestamp |-> fresh]
      members == SelectSeq(group.members, LAMBDA m : m.userId # userId)
  IN /\ groupPending[c].pc = "idle"
     /\ IF ~group.present
        THEN /\ lastCall' = call @@ [result |-> Err("GroupNotFound")]
             /\ UNCHANGED <<groupPending, groups, fresh>>
        ELSE /\ groups' = [groups EXCEPT ![u][groupId] =
                  [group EXCEPT !.pendingProposals = Append(@, proposal),
                                !.members = members, !.epoch = @ + 1]]
             /\ groupPending' = [groupPending EXCEPT ![c] =
                  [pc |-> "rApplied", call |-> call, proposal |-> proposal,
                   treeHash |-> ComputeTreeHash(members)]]
             /\ fresh' = fresh + 1
             /\ UNCHANGED lastCall
     /\ UNCHANGED <<keyPackages, credentials, welcomes, groupNetwork>>

\* processProposal resumes after updateEpoch: the processed proposal is dropped
RemoveFinish(c) ==
  LET p == groupPending[c] IN
  /\ p.pc = "rHashed"
  /\ groups' = [groups EXCEPT ![p.call.user][p.call.group] =
                  WithoutProposal(@, p.proposal)]
  /\ GroupCallEnds(c, p.call, Ok(Undefined))
  /\ UNCHANGED <<keyPackages, credentials, welcomes, groupNetwork, fresh>>

(***************************************************************************)
(* QuantumResistantCrypto                                                  *)
(* A Uint8Array is a sequence of fields [v, n]: n bytes holding the term v. *)
(***************************************************************************)
Field(v, n) == [v |-> v, n |-> n]

RECURSIVE ByteLength(_)
ByteLength(b) == IF b = <<>> THEN 0 ELSE b[1].n + ByteLength(Tail(b))

\* the offset at which field i of b starts
FieldStart(b, i) == ByteLength(SubSeq(b, 1, i - 1))

Min(a, b) == IF a < b THEN a ELSE b

Abs(x) == IF x < 0 THEN -x ELSE x

\* Uint8Array.prototype.slice(from, to): the fields between two field
\* boundaries, or bytes that are part of a field and mean nothing on their own
Slice(b, from, to) ==
  LET len == ByteLength(b)
      t == Min(to, len)
      f == Min(from, t)
      Boundary(off) == \E i \in 1 .. Len(b) + 1 : FieldStart(b, i) = off
      inside == {i \in 1 .. Len(b) : FieldStart(b, i) >= f /\ FieldStart(b, i + 1) <= t}
  IN IF f = t THEN <<>>
     ELSE IF Boundary(f) /\ Boundary(t)
     THEN SelectSeq([i \in 1 .. Len(b) |-> [b[i] EXCEPT !.n = IF i \in inside THEN @ ELSE 0]],
                    LAMBDA x : x.n > 0)
     ELSE <<Field(<<"cut", b, f, t>>, t - f)>>

\* DataView.setUint32(0, n, false)
Uint32(n) == <<Field(<<"u32", n>>, LengthPrefixBytes)>>

\* DataView.getUint32(0, false); readAs is what four bytes that were not
\* written as a length read as
GetUint32(b, readAs) ==
  IF Len(b) >= 1 /\ b[1].v[1] = "u32" THEN b[1].v[2] ELSE readAs

\* DataView.setBigUint64(0, BigInt(t), false)
BigUint64(t) == <<Field(<<"u64", t>>, TimestampBytes)>>

\* Number(DataView.getBigUint64(0, false))
GetBigUint64(b, readAs) ==
  IF Len(b) = 1 /\ b[1].v[1] = "u64" THEN b[1].v[2] ELSE readAs

\* Kyber768.keypair(), Dilithium3.keypair(): the k-th pair
KyberKeyPair(k) == [publicKey |-> <<"kyberPublic", k>>, privateKey |-> <<"kyberPrivate", k>>]
DilithiumKeyPair(k) == [publicKey |-> <<"dilithiumPublic", k>>,
                        privateKey |-> <<"dilithiumPrivate", k>>]

\* KyberService.encapsulate(publicKey) as draw number tick
Encapsulate(publicKey, tick) ==
  [sharedSecret |-> <<"sharedSecret", publicKey[2], tick>>,
   ciphertext |-> <<Field(<<"encapsulated", publicKey[2], tick>>, KemCiphertextBytes)>>]

\* a decapsulation that hands out the encapsulated secret under any key
Decapsulate_AnyKey(ciphertext, privateKey) ==
  IF Len(ciphertext) = 1 /\ ciphertext[1].v[1] = "encapsulated"
  THEN <<"sharedSecret", ciphertext[1].v[2], ciphertext[1].v[3]>>
  ELSE <<"rejected", ciphertext, privateKey>>

\* KyberService.decapsulate(ciphertext, privateKey): the encapsulated secret
\* under the private key of the pair, an unrelated secret otherwise
Decapsulate(ciphertext, privateKey) ==
  IF /\ Len(ciphertext) = 1 /\ ciphertext[1].v[1] = "encapsulated"
     /\ privateKey[1] = "kyberPrivate"
     /\ ciphertext[1].v[2] = privateKey[2]
  THEN <<"sharedSecret", ciphertext[1].v[2], ciphertext[1].v[3]>>
  ELSE <<"rejected", ciphertext, privateKey>>

\* crypto_kdf_derive_from_key(64, 1, 'MESSAENC', sharedSecret) and its halves
Kdf64(sharedSecret) == <<"kdf64", "MESSAENC", 1, sharedSecret>>
EncryptionKey(kdfOutput) == <<"slice", 0, 32, kdfOutput>>
AdditionalData(kdfOutput) == <<"slice", 32, 64, kdfOutput>>

\* the packet hybridEncrypt returns as draw number tick:
\* [encapsulatedKey.length][encapsulatedKey][nonce][encrypted]
HybridEncrypt(data, recipientPublicKey, tick) ==
  LET kem == Encapsulate(recipientPublicKey, tick)
      kdfOutput == Kdf64(kem.sharedSecret)
      nonce == <<Field(Rnd(tick, "nonce"), AeadNonceBytes)>>
      encrypted == <<Field(AeadEncrypt(data, AdditionalData(kdfOutput), nonce,
                                       EncryptionKey(kdfOutput)),
                           ByteLength(data) + AeadTagBytes)>>
  IN Uint32(ByteLength(kem.ciphertext)) \o kem.ciphertext \o nonce \o encrypted

\* hybridDecrypt(encryptedData, privateKey)
HybridDecrypt(encryptedData, privateKey, readAs) ==
  LET encapsulatedKeyLength == GetUint32(encryptedData, readAs)
      keyEnd == LengthPrefixBytes + encapsulatedKeyLength
      encapsulatedKey == Slice(encryptedData, LengthPrefixBytes, keyEnd)
      nonce == Slice(encryptedData, keyEnd, keyEnd + AeadNonceBytes)
      encrypted == Slice(encryptedData, keyEnd + AeadNonceBytes, ByteLength(encryptedData))
      kdfOutput == Kdf64(Decapsulate(encapsulatedKey, privateKey))
  IN \* getUint32(0) of fewer than four bytes is out of the view's bounds
     IF ByteLength(encryptedData) < LengthPrefixBytes THEN Err("RangeError")
     \* the slices are clamped without complaint and Kyber is handed what is
     \* left; libsodium refuses a nonce that is not 12 bytes and a ciphertext
     \* shorter than its tag
     ELSE IF \/ ByteLength(nonce) # AeadNonceBytes
             \/ ByteLength(encrypted) < AeadTagBytes THEN Err("TypeError")
     ELSE IF Len(encrypted) # 1 THEN Err("DecryptionFailure")
     ELSE AeadDecrypt(encrypted[1].v, AdditionalData(kdfOutput), nonce,
                      EncryptionKey(kdfOutput))

\* DilithiumService.sign(message, privateKey); the library fixes the length
DilithiumSign(message, privateKey, signatureBytes) ==
  <<Field(<<"signature", privateKey[2], message>>, signatureBytes)>>

\* DilithiumService.verify(message, signature, publicKey): false on a
\* signature that is not whole, that is of another key or of another message
DilithiumVerify(message, signature, publicKey) ==
  /\ Len(signature) = 1
  /\ signature[1].v[1] = "signature"
  /\ signature[1].v[2] = publicKey[2]
  /\ signature[1].v[3] = message

\* the packet quantumSafeSign returns at time now as draw number tick:
\* [signature][timestamp][nonce]
QuantumSafeSign(data, privateKey, now, tick, signatureBytes) ==
  LET timestamp == BigUint64(now)
      nonce == <<Field(Rnd(tick, "nonce"), SignNonceBytes)>>
      messageToSign == data \o timestamp \o nonce
      signature == DilithiumSign(messageToSign, privateKey, signatureBytes)
  IN signature \o timestamp \o nonce

\* whether a packet of that time passes at time currentTime
WithinWindow_Always(currentTime, signatureTime) == TRUE

\* Math.abs(currentTime - signatureTime) > 5 * 60 * 1000 rejects
WithinWindow(currentTime, signatureTime) ==
  Abs(currentTime - signatureTime) <= MaxSignatureAge

\* quantumSafeVerify(data, signaturePacket, publicKey) at time now
QuantumSafeVerify(data, signaturePacket, publicKey, now, readAs) ==
  IF ByteLength(signaturePacket) < SignatureLength + TimestampBytes + SignNonceBytes
  THEN FALSE
  ELSE LET signature == Slice(signaturePacket, 0, SignatureLength)
           timestamp == Slice(signaturePacket, SignatureLength,
                              SignatureLength + TimestampBytes)
           nonce == Slice(signaturePacket, SignatureLength + TimestampBytes,
                          ByteLength(signaturePacket))
           signatureTime == GetBigUint64(timestamp, readAs)
       IN /\ WithinWindow(now, signatureTime)
          /\ DilithiumVerify(data \o timestamp \o nonce, signature, publicKey)

\* payloads of 10 KB
Payloads == {<<[v |-> <<"data", "photo">>, n |-> 10240]>>,
             <<[v |-> <<"data", "voice">>, n |-> 10240]>>}

\* the signature lengths a Dilithium build produces: 2420 bytes at security
\* level 2, 3293 bytes at level 3
SignatureLengths == {2420, 3293}

\* one byte of field i of a packet changed in transit (i = 0: none); a
\* changed length prefix reads as the length alt
ByteChanged(b, i, alt) ==
  IF i = 0 THEN b
  ELSE [b EXCEPT ![i].v = IF @[1] = "u32" THEN <<"u32", alt>> ELSE <<"changed", @>>]

\* 1088 = 0x00000440 with one byte changed
ByteChanges == {<<0, 0>>, <<1, 64>>, <<1, 1089>>, <<2, 0>>, <<3, 0>>, <<4, 0>>}

HybridEncryptCall(data, k) ==
  LET packet == HybridEncrypt(data, KyberKeyPair(k).publicKey, fresh) IN
  /\ hybridPackets' = hybridPackets \cup {[packet |-> packet, keyId |-> k, data |-> data]}
  /\ fresh' = fresh + 1
  /\ lastCall' = [op |-> "hybridEncrypt", result |-> Ok(packet)]
  /\ UNCHANGED signaturePackets

HybridDecryptCall(sent, change, k) ==
  /\ lastCall' = [op |-> "hybridDecrypt", sent |-> sent, change |-> change, keyId |-> k,
                  result |-> HybridDecrypt(ByteChanged(sent.packet, change[1], change[2]),
                                           KyberKeyPair(k).privateKey, 0)]
  /\ UNCHANGED <<qrcVars, fresh>>

\* the first n bytes of b: the fields that fit, and the part of the field
\* that n falls into
Truncated(b, n) ==
  LET Kept(i) == Min(b[i].n, n - FieldStart(b, i))
      Part(i) == IF Kept(i) = b[i].n THEN b[i]
                 ELSE Field(<<"cut", b[i].v, Kept(i)>>, Kept(i))
  IN SelectSeq([i \in 1 .. Len(b) |-> IF Kept(i) > 0 THEN Part(i) ELSE Field(Undefined, 0)],
               LAMBDA x : x.n > 0)

\* the length prefixes a received packet carries: the one written, and two
\* that its first four bytes read as after a change
ReceivedPrefixes == {KemCiphertextBytes, 64, 20000}

\* the lengths at which a packet arrives: empty, cut inside the prefix, after
\* it, after the encapsulated key, inside the nonce, after it, and whole
ReceivedLengths(packet) ==
  {0, 3, LengthPrefixBytes, LengthPrefixBytes + KemCiphertextBytes,
   LengthPrefixBytes + KemCiphertextBytes + 5,
   LengthPrefixBytes + KemCiphertextBytes + AeadNonceBytes, ByteLength(packet)}

\* hybridDecrypt of a packet as it arrived: the first length bytes of what
\* was sent, its prefix reading as prefix
HybridDecryptReceived(sent, prefix, length, k) ==
  LET received == Truncated(ByteChanged(sent.packet, 1, prefix), length) IN
  /\ lastCall' = [op |-> "hybridDecrypt", received |-> received, prefix |-> prefix,
                  keyId |-> k,
                  result |-> HybridDecrypt(received, KyberKeyPair(k).privateKey, 0)]
  /\ UNCHANGED <<qrcVars, fresh>>

QuantumSafeSignCall(data, k, now, signatureBytes) ==
  LET packet == QuantumSafeSign(data, DilithiumKeyPair(k).privateKey, now, fresh,
                                signatureBytes)
  IN /\ signaturePackets' = signaturePackets \cup
          {[packet |-> packet, keyId |-> k, data |-> data, time |-> now]}
     /\ fresh' = fresh + 1
     /\ lastCall' = [op |-> "quantumSafeSign", result |-> Ok(packet)]
     /\ UNCHANGED hybridPackets

QuantumSafeVerifyCall(sent, data, k, now, readAs) ==
  /\ lastCall' = [op |-> "quantumSafeVerify", sent |-> sent, data |-> data, keyId |-> k,
                  now |-> now,
                  result |-> QuantumSafeVerify(data, sent.packet,
                                               DilithiumKeyPair(k).publicKey, now, readAs)]
  /\ UNCHANGED <<qrcVars, fresh>>

(***************************************************************************)
(* MessageEncryptionService                                                *)
(***************************************************************************)
\* Message.type values: text and two of the media types
MessageTypes == {"text", "image", "file"}

Messages == [type : MessageTypes, content : Plaintexts]

\* JSON.stringify({...message, timestamp})
SerializeMessage(message) == <<"json", message>>

\* new Uint8Array(32), passed where a recipient key and a private key go
PlaceholderKey == <<"zeros", 32>>

\* the ratchet's ciphertext (nonce, then box) as the bytes hybridEncrypt gets
AsBytes(ciphertext) == <<Field(ciphertext, 10280)>>

\* MessageEncryptionService.encryptMessage(message, recipientId); kemOk:
\* whether Kyber768.encapsulate accepts the placeholder key
MesEncryptMessage(d, message, recipientId, kemOk) ==
  LET session == sessions[d][recipientId]
      call == [op |-> "mes.encryptMessage", dev |-> d, peer |-> recipientId]
  IN
  IF ~session.present
  THEN /\ lastCall' = call @@ [result |-> Err("SessionNotFound")]
       /\ UNCHANGED <<signalVars, fresh>>
  ELSE LET messageKey == DeriveMessageKey(session.sendingChain.key)
           nonce == Rnd(fresh, "nonce")
           box == SecretboxEasy(SerializeMessage(message), nonce, messageKey)
           encrypted == Envelope(recipientId, nonce, box, fresh)
           wrap == message.type # "text"
           quantumEncrypted == HybridEncrypt(AsBytes(encrypted.ciphertext),
                                             PlaceholderKey, fresh)
           returned == IF wrap THEN [encrypted EXCEPT !.ciphertext = quantumEncrypted]
                       ELSE encrypted
       IN /\ sessions' = [sessions EXCEPT ![d][recipientId].sendingChain =
                            AdvancedSendingChain(@, messageKey)]
          /\ droppedChainKeys' = [droppedChainKeys EXCEPT ![d] =
                                    @ \cup {session.sendingChain.key}]
          /\ fresh' = fresh + 1
          /\ IF wrap /\ ~kemOk
             THEN /\ lastCall' = call @@ [result |-> Err("KemFailure")]
                  /\ UNCHANGED network
             ELSE /\ network' = network \cup
                       {[from |-> d, env |-> returned, type |-> message.type,
                         wrapped |-> wrap, inner |-> encrypted.ciphertext]}
                  /\ lastCall' = call @@ [result |-> Ok(returned)]
          /\ UNCHANGED <<identityKeyPair, registrationId, preKeys, signedPreKey,
                         bundles, bundleCount, issuedIds>>

\* MessageEncryptionService.decryptMessage(encrypted) of an envelope that was
\* sent, its messageType as the transport delivers it. The envelope names its
\* sender 'self', and no session is stored under that name.
MesDecryptMessage(d, sent, messageType, readAs) ==
  LET encrypted == [sent.env EXCEPT !.messageType = messageType]
      call == [op |-> "mes.decryptMessage", dev |-> d, sent |-> sent,
               messageType |-> messageType]
      unwrap == encrypted.messageType # 1
      packet == IF sent.wrapped THEN encrypted.ciphertext
                ELSE AsBytes(encrypted.ciphertext)
      decryptedData == HybridDecrypt(packet, PlaceholderKey, readAs)
  IN /\ IF unwrap /\ ~IsOk(decryptedData)
        THEN lastCall' = call @@ [unwrapped |-> TRUE, handed |-> Undefined,
                                  result |-> decryptedData]
        ELSE lastCall' = call @@
               [unwrapped |-> unwrap,
                handed |-> IF unwrap THEN decryptedData[2][1].v ELSE encrypted.ciphertext,
                result |-> Err("SessionNotFound")]
     /\ UNCHANGED <<signalVars, fresh>>

(***************************************************************************)
(* MessageEncryptionService: ephemeral messages. Times are in seconds.     *)
(***************************************************************************)
\* the longest delay setTimeout accepts, 2^31 - 1 ms, in whole seconds; a
\* longer delay is replaced by 1 ms
TimeoutMaxSeconds == 2147483

MessageIds == {"m1", "m2"}

\* caller-supplied TTLs: none, two seconds, 28 days
Ttls == {0, 2, 2419200}

\* the delay setTimeout(callback, ttl) waits, 1 ms counted as no time
TimerDelay(ttl) == IF ttl < 1 \/ ttl > TimeoutMaxSeconds THEN 0 ELSE ttl

\* the pending callbacks after scheduleMessageDeletion(messageId, ttl); the
\* handle setTimeout returns is dropped
ScheduleMessageDeletion(messageId, ttl, handle) ==
  timers \cup {[handle |-> handle, id |-> messageId, ttl |-> ttl,
                scheduledAt |-> clock, due |-> clock + TimerDelay(ttl)]}

\* encryptEphemeralMessage(message, recipientId, ttl): a throw of
\* encryptMessage leaves before scheduleMessageDeletion is reached
EncryptEphemeralMessage(d, message, recipientId, ttl, kemOk) ==
  LET ephemeralMessage == message @@ [ephemeral |-> TRUE, ephemeralTimeout |-> ttl,
                                      expiresAt |-> clock + ttl]
  IN /\ MesEncryptMessage(d, ephemeralMessage, recipientId, kemOk)
     /\ timers' = IF IsOk(lastCall'.result)
                  THEN ScheduleMessageDeletion(message.id, ttl, fresh)
                  ELSE timers
     /\ UNCHANGED <<clock, deletions, cancelled, delivered>>

\* a pending callback runs once its delay has passed: deleteMessage(messageId)
\* writes a log line and touches no state of the service
TimerFires(t) ==
  /\ t \in timers
  /\ clock >= t.due
  /\ timers' = timers \ {t}
  /\ deletions' = deletions \cup {[handle |-> t.handle, id |-> t.id, ttl |-> t.ttl,
                                    scheduledAt |-> t.scheduledAt, at |-> clock]}
  /\ lastCall' = [op |-> "deleteMessage", id |-> t.id, result |-> Ok(Undefined)]
  /\ UNCHANGED <<signalVars, fresh, clock, cancelled, delivered>>

\* time passes
Tick ==
  /\ clock < MaxInstant
  /\ clock' = clock + 1
  /\ lastCall' = [op |-> "tick", result |-> Ok(Undefined)]
  /\ UNCHANGED <<signalVars, fresh, timers, deletions, cancelled, delivered>>

\* The application wants the pending deletions of messageId cancelled. The
\* service has no method for it, and the handles clearTimeout would need were
\* dropped by scheduleMessageDeletion: the timers stay as they are.
CancelMessageDeletion(messageId) ==
  /\ cancelled' = cancelled \cup {t.handle : t \in {x \in timers : x.id = messageId}}
  /\ lastCall' = [op |-> "cancelMessageDeletion", id |-> messageId,
                  result |-> Err("TypeError")]
  /\ UNCHANGED <<signalVars, fresh, clock, timers, deletions, delivered>>

(***************************************************************************)
(* Specifications                                                          *)
(***************************************************************************)
Init ==
  /\ identityKeyPair = [d \in Devices |-> NoKeyPair]
  /\ registrationId = [d \in Devices |-> IF d = "A" THEN 1 ELSE 16383]
  /\ sessions = [d \in Devices |-> [p \in Devices |-> NoSession]]
  /\ preKeys = [d \in Devices |-> [gen |-> 0, ids |-> <<>>]]
  /\ signedPreKey = [d \in Devices |-> NoKeyPair]
  /\ bundles = [d \in Devices |-> NoBundle]
  /\ bundleCount = [d \in Devices |-> 0]
  /\ issuedIds = [d \in Devices |-> {}]
  /\ network = {}
  /\ droppedChainKeys = [d \in Devices |-> {}]
  /\ fsSessions = [i \in FsSessionIds |-> NoSession]
  /\ fsRotations = [i \in FsSessionIds |-> 0]
  /\ fsZeroed = [i \in FsSessionIds |-> {}]
  /\ groups = [u \in MlsUsers |-> [g \in GroupIds |-> NoGroup]]
  /\ keyPackages = [u \in MlsUsers |-> Undefined]
  /\ credentials = [u \in MlsUsers |-> Undefined]
  /\ welcomes = {}
  /\ groupNetwork = {}
  /\ pending = [c \in CallIds |-> Idle]
  /\ groupPending = [c \in CallIds |-> Idle]
  /\ hybridPackets = {}
  /\ signaturePackets = {}
  /\ clock = 0
  /\ timers = {}
  /\ deletions = {}
  /\ cancelled = {}
  /\ delivered = <<>>
  /\ fresh = 1
  /\ lastCall = NoCall
  /\ coverPackets = {}
  /\ packetHistory = {}

\* Two devices set up sessions from each other's prekey bundles and exchange
\* messages.
Next ==
  \/ \E d \in Devices :
        fresh <= MaxFresh /\ Initialize(d) /\ UNCHANGED <<fsVars, mlsVars, asyncVars, qrcVars, mesVars, coverVars>>
  \/ \E d \in Devices : \E i \in 0 .. (MaxSignalDraw - 1) :
        /\ fresh <= MaxFresh /\ bundleCount[d] < MaxBundles
        /\ GeneratePreKeyBundle(d, i) /\ UNCHANGED <<fsVars, mlsVars, asyncVars, qrcVars, mesVars, coverVars>>
  \/ \E d \in Devices : \E p \in Devices \ {d} :
        fresh <= MaxFresh /\ InitializeSession(d, p, bundles[p]) /\ UNCHANGED <<fsVars, mlsVars, asyncVars, qrcVars, mesVars, coverVars>>
  \/ \E d \in Devices : \E p \in Devices \ {d} : \E m \in Plaintexts :
        fresh <= MaxFresh /\ EncryptMessage(d, p, m) /\ UNCHANGED <<fsVars, mlsVars, asyncVars, qrcVars, mesVars, coverVars>>
  \/ \E d \in Devices : \E p \in Devices \ {d} : \E pkt \in network :
        /\ fresh <= MaxFresh /\ pkt.from = p
        /\ DecryptMessage(d, p, pkt.env) /\ UNCHANGED <<fsVars, mlsVars, asyncVars, qrcVars, mesVars, coverVars>>

Spec == Init /\ [][Next]_vars

\* One device hands out prekey bundles, re-initializes and rotates its signed
\* prekey; the pool is followed through more than PreKeyCount bundles.
NextPreKeys ==
  \/ fresh <= MaxPreKeyFresh /\ Initialize("A") /\ UNCHANGED <<fsVars, mlsVars, asyncVars, qrcVars, mesVars, coverVars>>
  \/ \E i \in 0 .. (MaxDraw - 1) :
        /\ bundleCount["A"] <= PreKeyCount
        /\ GeneratePreKeyBundle("A", i) /\ UNCHANGED <<fsVars, mlsVars, asyncVars, qrcVars, mesVars, coverVars>>
  \/ fresh <= MaxPreKeyFresh /\ RotateSignedPreKey("A") /\ UNCHANGED <<fsVars, mlsVars, asyncVars, qrcVars, mesVars, coverVars>>

SpecPreKeys == Init /\ [][NextPreKeys]_vars

\* Device A holds a session with B and receives envelopes that carry the
\* peer's ratchet keys, the k-th key being delivered first after the (k-1)-th;
\* a ForwardSecrecyService session is established and rotated.
NextRatchet ==
  \/ \E d \in Devices : \E i \in {0} :
        /\ bundleCount[d] < MaxBundles
        /\ GeneratePreKeyBundle(d, i) /\ UNCHANGED <<fsVars, mlsVars, asyncVars, qrcVars, mesVars, coverVars>>
  \/ fresh <= MaxRatchetFresh /\ InitializeSession("A", "B", bundles["B"])
        /\ UNCHANGED <<fsVars, mlsVars, asyncVars, qrcVars, mesVars, coverVars>>
  \/ \E k \in 1 .. MaxEphKeys :
        /\ fresh <= MaxRatchetFresh
        /\ sessions["A"]["B"].present
        /\ k <= Len(sessions["A"]["B"].receivingChains) + 1
        /\ DecryptMessage("A", "B", PeerEnvelope(k, "hello")) /\ UNCHANGED <<fsVars, mlsVars, asyncVars, qrcVars, mesVars, coverVars>>
  \/ \E id \in FsSessionIds :
        /\ fresh <= MaxRatchetFresh
        /\ EstablishRatchet(id, <<"peer", "publicKey", 1>>) /\ UNCHANGED <<signalVars, mlsVars, asyncVars, qrcVars, mesVars, coverVars>>
  \/ \E id \in FsSessionIds :
        /\ fsRotations[id] < MaxRotations
        /\ RotateKeys(id) /\ UNCHANGED <<signalVars, mlsVars, asyncVars, qrcVars, mesVars, coverVars>>

SpecRatchet == Init /\ [][NextRatchet]_vars

\* A ForwardSecrecyService session is established, rotated and put through
\* the quantum ratchet, which is also called before the session exists.
NextSecrecy ==
  \/ \E id \in FsSessionIds :
        /\ fresh <= MaxSecrecyFresh
        /\ EstablishRatchet(id, <<"peer", "publicKey", 1>>)
        /\ UNCHANGED <<signalVars, mlsVars, asyncVars, qrcVars, mesVars, coverVars>>
  \/ \E id \in FsSessionIds :
        /\ fsRotations[id] < MaxSecrecyRotations
        /\ RotateKeys(id)
        /\ UNCHANGED <<signalVars, mlsVars, asyncVars, qrcVars, mesVars, coverVars>>
  \/ \E id \in FsSessionIds :
        /\ fresh <= MaxSecrecyFresh
        /\ fsRotations[id] < MaxSecrecyRotations
        /\ PerformQuantumRatchet(id)
        /\ UNCHANGED <<signalVars, mlsVars, asyncVars, qrcVars, mesVars, coverVars>>

SpecSecrecy == Init /\ [][NextSecrecy]_vars

\* Device A holds a session with B and runs up to two encryptMessage calls at
\* once; a call is suspended at each of its awaits and the calls' steps
\* interleave. A session is set up only while no call is in flight.
NextAsync ==
  \/ /\ bundleCount["B"] < MaxBundles
     /\ GeneratePreKeyBundle("B", 0)
     /\ UNCHANGED <<fsVars, mlsVars, asyncVars, qrcVars, mesVars, coverVars>>
  \/ /\ fresh <= MaxAsyncFresh
     /\ \A c \in CallIds : pending[c].pc = "idle"
     /\ InitializeSession("A", "B", bundles["B"])
     /\ UNCHANGED <<fsVars, mlsVars, asyncVars, qrcVars, mesVars, coverVars>>
  \/ \E c \in CallIds : \E m \in Plaintexts :
        /\ EncryptStart(c, "A", "B", m)
        /\ UNCHANGED <<fsVars, mlsVars, groupPending, qrcVars, mesVars, coverVars>>
  \/ \E c \in CallIds :
        /\ fresh <= MaxAsyncFresh
        /\ EncryptSeal(c)
        /\ UNCHANGED <<fsVars, mlsVars, groupPending, qrcVars, mesVars, coverVars>>
  \/ \E c \in CallIds :
        /\ EncryptCommit(c)
        /\ UNCHANGED <<fsVars, mlsVars, groupPending, qrcVars, mesVars, coverVars>>

SpecAsync == Init /\ [][NextAsync]_vars

\* the bundles a device can be handed for a peer: the one the peer published,
\* or that one with a key damaged in transit
ReceivedBundles(b) ==
  IF ~b.present THEN {}
  ELSE {b, [b EXCEPT !.signedPreKey = Malformed], [b EXCEPT !.identityKey = Malformed],
        [b EXCEPT !.preKey = Malformed]}

\* Device A sets up sessions from the bundles it receives, intact or damaged,
\* publishes bundles of its own and sends messages.
NextSession ==
  \/ \E d \in Devices :
        /\ fresh <= MaxSessionFresh /\ bundleCount[d] < MaxBundles
        /\ GeneratePreKeyBundle(d, 0) /\ UNCHANGED <<fsVars, mlsVars, asyncVars, qrcVars, mesVars, coverVars>>
  \/ \E p \in Devices : \E b \in ReceivedBundles(bundles["B"]) :
        /\ fresh <= MaxSessionFresh
        /\ InitializeSession("A", p, b) /\ UNCHANGED <<fsVars, mlsVars, asyncVars, qrcVars, mesVars, coverVars>>
  \/ \E p \in Devices : \E m \in Plaintexts :
        /\ fresh <= MaxSessionFresh
        /\ EncryptMessage("A", p, m) /\ UNCHANGED <<fsVars, mlsVars, asyncVars, qrcVars, mesVars, coverVars>>

SpecSession == Init /\ [][NextSession]_vars

\* A and B set up sessions with each other from each other's bundle; A sends
\* up to five messages on its sending chain and B is handed each of them
\* once, in any order.
NextOrder ==
  \/ \E d \in Devices :
        /\ bundleCount[d] < MaxBundles /\ ~bundles[d].present
        /\ GeneratePreKeyBundle(d, 0)
        /\ UNCHANGED <<fsVars, mlsVars, asyncVars, qrcVars, mesVars, coverVars>>
  \/ \E d \in Devices : \E p \in Devices \ {d} :
        /\ ~sessions[d][p].present
        /\ InitializeSession(d, p, bundles[p])
        /\ UNCHANGED <<fsVars, mlsVars, asyncVars, qrcVars, mesVars, coverVars>>
  \/ \E m \in Plaintexts :
        /\ sessions["A"]["B"].present
        /\ sessions["A"]["B"].sendingChain.index < MaxOrderMessages
        /\ EncryptMessage("A", "B", m)
        /\ UNCHANGED <<fsVars, mlsVars, asyncVars, qrcVars, mesVars, coverVars>>
  \/ \E pkt \in network :
        /\ sessions["B"]["A"].present
        /\ \A i \in DOMAIN delivered : delivered[i].number # MessageNumber(pkt.env)
        /\ Deliver("B", "A", pkt.env)
        /\ UNCHANGED <<fsVars, mlsVars, asyncVars, qrcVars, coverVars>>

SpecOrder == Init /\ [][NextOrder]_vars

\* Device A holds a session with B and sends text and media messages through
\* its MessageEncryptionService; B's MessageEncryptionService is handed the
\* envelopes, with the messageType they carry or marked as media.
NextWrap ==
  \/ /\ bundleCount["B"] < MaxBundles
     /\ GeneratePreKeyBundle("B", 0)
     /\ UNCHANGED <<fsVars, mlsVars, asyncVars, qrcVars, mesVars, coverVars>>
  \/ /\ fresh <= MaxWrapFresh
     /\ InitializeSession("A", "B", bundles["B"])
     /\ UNCHANGED <<fsVars, mlsVars, asyncVars, qrcVars, mesVars, coverVars>>
  \/ \E message \in Messages : \E kemOk \in BOOLEAN :
        /\ fresh <= MaxWrapFresh
        /\ MesEncryptMessage("A", message, "B", kemOk)
        /\ UNCHANGED <<fsVars, mlsVars, asyncVars, qrcVars, mesVars, coverVars>>
  \/ \E sent \in network : \E t \in {TextMessageType, GroupMessageType} :
        \E readAs \in {0, KemCiphertextBytes} :
          /\ MesDecryptMessage("B", sent, t, readAs)
          /\ UNCHANGED <<fsVars, mlsVars, asyncVars, qrcVars, mesVars, coverVars>>

SpecWrap == Init /\ [][NextWrap]_vars

\* Packets are made by hybridEncrypt and quantumSafeSign for the key pairs of
\* KeyIds and handed to hybridDecrypt, as made or with one byte changed, and
\* to quantumSafeVerify at any reading of the clock.
NextCrypto ==
  \/ \E data \in Payloads : \E k \in KeyIds :
        /\ fresh <= MaxCryptoFresh
        /\ HybridEncryptCall(data, k)
        /\ UNCHANGED <<signalVars, fsVars, mlsVars, asyncVars, mesVars, coverVars>>
  \/ \E sent \in hybridPackets : \E change \in ByteChanges : \E k \in KeyIds :
        HybridDecryptCall(sent, change, k)
          /\ UNCHANGED <<signalVars, fsVars, mlsVars, asyncVars, mesVars, coverVars>>
  \/ \E data \in Payloads : \E k \in KeyIds : \E now \in SignClock :
        \E n \in SignatureLengths :
          /\ fresh <= MaxCryptoFresh
          /\ QuantumSafeSignCall(data, k, now, n)
          /\ UNCHANGED <<signalVars, fsVars, mlsVars, asyncVars, mesVars, coverVars>>
  \/ \E sent \in signaturePackets : \E data \in Payloads : \E k \in KeyIds :
        \E now \in Clock : \E readAs \in GarbledTimes :
          QuantumSafeVerifyCall(sent, data, k, now, readAs)
            /\ UNCHANGED <<signalVars, fsVars, mlsVars, asyncVars, mesVars, coverVars>>

SpecCrypto == Init /\ [][NextCrypto]_vars

\* Packets made by hybridEncrypt arrive at hybridDecrypt whole or cut short,
\* with the length prefix as written or changed.
NextEnvelope ==
  \/ \E data \in Payloads : \E k \in KeyIds :
        /\ fresh <= MaxEnvelopeFresh
        /\ HybridEncryptCall(data, k)
        /\ UNCHANGED <<signalVars, fsVars, mlsVars, asyncVars, mesVars, coverVars>>
  \/ \E sent \in hybridPackets : \E prefix \in ReceivedPrefixes :
        \E length \in ReceivedLengths(sent.packet) : \E k \in KeyIds :
          HybridDecryptReceived(sent, prefix, length, k)
            /\ UNCHANGED <<signalVars, fsVars, mlsVars, asyncVars, mesVars, coverVars>>

SpecEnvelope == Init /\ [][NextEnvelope]_vars

\* User A's MLSService creates a group and then runs up to two calls at once:
\* encryptGroupMessage, addMember and removeMember, each suspended at its
\* awaits, their steps interleaving.
NextGroupAsync ==
  \/ /\ fresh <= MaxGroupAsyncFresh
     /\ MlsInitialize("A") /\ UNCHANGED <<signalVars, fsVars, asyncVars, qrcVars, mesVars, coverVars>>
  \/ \E ids \in {<<>>, <<"B">>} :
        /\ fresh <= MaxGroupAsyncFresh
        /\ CreateGroup("A", "g", ids, TRUE)
        /\ UNCHANGED <<signalVars, fsVars, asyncVars, qrcVars, mesVars, coverVars>>
  \/ \E c \in CallIds : \E m \in Plaintexts :
        GroupEncryptStart(c, "A", "g", m) /\ UNCHANGED <<signalVars, fsVars, pending, qrcVars, mesVars, coverVars>>
  \/ \E c \in CallIds :
        /\ fresh <= MaxGroupAsyncFresh
        /\ GroupEncryptSeal(c) /\ UNCHANGED <<signalVars, fsVars, pending, qrcVars, mesVars, coverVars>>
  \/ \E c \in CallIds : \E t \in UserIds :
        /\ fresh <= MaxGroupAsyncFresh
        /\ AddStart(c, "A", "g", t) /\ UNCHANGED <<signalVars, fsVars, pending, qrcVars, mesVars, coverVars>>
  \/ \E c \in CallIds :
        AddQueue(c) /\ UNCHANGED <<signalVars, fsVars, pending, qrcVars, mesVars, coverVars>>
  \/ \E c \in CallIds :
        AddApply(c) /\ UNCHANGED <<signalVars, fsVars, pending, qrcVars, mesVars, coverVars>>
  \/ \E c \in CallIds :
        EpochHashStored(c, "aApplied", "aHashed")
          /\ UNCHANGED <<signalVars, fsVars, pending, qrcVars, mesVars, coverVars>>
  \/ \E c \in CallIds :
        AddWelcome(c) /\ UNCHANGED <<signalVars, fsVars, pending, qrcVars, mesVars, coverVars>>
  \/ \E c \in CallIds : \E kemOk \in BOOLEAN :
        AddFinish(c, kemOk) /\ UNCHANGED <<signalVars, fsVars, pending, qrcVars, mesVars, coverVars>>
  \/ \E c \in CallIds : \E t \in UserIds :
        /\ fresh <= MaxGroupAsyncFresh
        /\ RemoveStart(c, "A", "g", t) /\ UNCHANGED <<signalVars, fsVars, pending, qrcVars, mesVars, coverVars>>
  \/ \E c \in CallIds :
        EpochHashStored(c, "rApplied", "rHashed")
          /\ UNCHANGED <<signalVars, fsVars, pending, qrcVars, mesVars, coverVars>>
  \/ \E c \in CallIds :
        RemoveFinish(c) /\ UNCHANGED <<signalVars, fsVars, pending, qrcVars, mesVars, coverVars>>

SpecGroupAsync == Init /\ [][NextGroupAsync]_vars

\* the memberIds lists createGroup is called with
MemberIdLists == {<<>>, <<"B">>, <<"A", "D">>, <<"B", "B">>}

\* an update proposal of proposer p carrying a new key package
UpdateProposal(p) ==
  [id |-> Rnd(fresh, "uuid"), type |-> "update", proposer |-> p,
   target |-> NoTarget, data |-> Rnd(fresh, "keyPackage"), timestamp |-> fresh]

\* the proposals processProposal is handed: add, remove and update proposals,
\* complete or with the target or the data missing
ProposalInputs ==
  {[id |-> Rnd(fresh, "uuid"), type |-> type, proposer |-> proposer, target |-> target,
    data |-> data, timestamp |-> fresh] :
     type \in {"add", "remove", "update"}, proposer \in {"A", "D"},
     target \in {NoTarget, "B"},
     data \in {Undefined, Rnd(fresh, "keyPackage")}}

\* ephemeral messages of two ids
EphemeralMessages == [type : {"text", "image"}, content : {"hello"}, id : MessageIds]

\* Device A sends ephemeral messages to B, before and after it has a session
\* with B; time passes, the timers fire, and the application asks for
\* deletions to be cancelled.
NextEphemeral ==
  \/ /\ bundleCount["B"] < MaxBundles
     /\ GeneratePreKeyBundle("B", 0)
     /\ UNCHANGED <<fsVars, mlsVars, asyncVars, qrcVars, mesVars, coverVars>>
  \/ /\ fresh <= MaxEphemeralFresh
     /\ ~sessions["A"]["B"].present
     /\ InitializeSession("A", "B", bundles["B"])
     /\ UNCHANGED <<fsVars, mlsVars, asyncVars, qrcVars, mesVars, coverVars>>
  \/ \E message \in EphemeralMessages : \E ttl \in Ttls : \E kemOk \in BOOLEAN :
        /\ fresh <= MaxEphemeralFresh
        /\ EncryptEphemeralMessage("A", message, "B", ttl, kemOk)
        /\ UNCHANGED <<fsVars, mlsVars, asyncVars, qrcVars, coverVars>>
  \/ \E t \in timers :
        TimerFires(t) /\ UNCHANGED <<fsVars, mlsVars, asyncVars, qrcVars, coverVars>>
  \/ Tick /\ UNCHANGED <<fsVars, mlsVars, asyncVars, qrcVars, coverVars>>
  \/ \E id \in MessageIds :
        CancelMessageDeletion(id) /\ UNCHANGED <<fsVars, mlsVars, asyncVars, qrcVars, coverVars>>

SpecEphemeral == Init /\ [][NextEphemeral]_vars

\* User A creates a group; A and D, who has none, call every method that
\* takes a groupId, processProposal with proposals of every shape.
NextProposals ==
  \/ /\ fresh <= MaxProposalFresh /\ MlsInitialize("A")
     /\ UNCHANGED <<signalVars, fsVars, asyncVars, qrcVars, mesVars, coverVars>>
  \/ \E ids \in {<<>>, <<"B">>} :
        /\ fresh <= MaxProposalFresh /\ CreateGroup("A", "g", ids, TRUE)
        /\ UNCHANGED <<signalVars, fsVars, asyncVars, qrcVars, mesVars, coverVars>>
  \/ \E u \in MlsUsers : \E t \in {"B"} :
        /\ fresh <= MaxProposalFresh /\ AddMember(u, "g", t, TRUE)
        /\ UNCHANGED <<signalVars, fsVars, asyncVars, qrcVars, mesVars, coverVars>>
  \/ \E u \in MlsUsers : \E t \in {"B"} :
        /\ fresh <= MaxProposalFresh /\ RemoveMember(u, "g", t)
        /\ UNCHANGED <<signalVars, fsVars, asyncVars, qrcVars, mesVars, coverVars>>
  \/ \E u \in MlsUsers : \E proposal \in ProposalInputs :
        /\ fresh <= MaxProposalFresh /\ ProcessProposal(u, "g", proposal, TRUE)
        /\ UNCHANGED <<signalVars, fsVars, asyncVars, qrcVars, mesVars, coverVars>>
  \/ \E u \in MlsUsers :
        /\ fresh <= MaxProposalFresh /\ EncryptGroupMessage(u, "g", "hello")
        /\ UNCHANGED <<signalVars, fsVars, asyncVars, qrcVars, mesVars, coverVars>>
  \/ \E u \in MlsUsers : \E pkt \in groupNetwork :
        /\ DecryptGroupMessage(u, "g", pkt.env)
        /\ UNCHANGED <<signalVars, fsVars, asyncVars, qrcVars, mesVars, coverVars>>

SpecProposals == Init /\ [][NextProposals]_vars

\* Two users run an MLSService each: they create groups, change the
\* membership, send group messages and decrypt what was sent, as sent and with
\* the associated data re-tagged with epoch 0 or with the receiver's epoch.
NextMLS ==
  \/ \E u \in MlsUsers :
        fresh <= MaxMlsFresh /\ MlsInitialize(u) /\ UNCHANGED <<signalVars, fsVars, asyncVars, qrcVars, mesVars, coverVars>>
  \/ \E u \in MlsUsers : \E g \in GroupIds : \E ids \in MemberIdLists : \E kemOk \in BOOLEAN :
        fresh <= MaxMlsFresh /\ CreateGroup(u, g, ids, kemOk) /\ UNCHANGED <<signalVars, fsVars, asyncVars, qrcVars, mesVars, coverVars>>
  \/ \E u \in MlsUsers : \E g \in GroupIds : \E t \in UserIds : \E kemOk \in BOOLEAN :
        fresh <= MaxMlsFresh /\ AddMember(u, g, t, kemOk) /\ UNCHANGED <<signalVars, fsVars, asyncVars, qrcVars, mesVars, coverVars>>
  \/ \E u \in MlsUsers : \E g \in GroupIds : \E t \in UserIds :
        fresh <= MaxMlsFresh /\ RemoveMember(u, g, t) /\ UNCHANGED <<signalVars, fsVars, asyncVars, qrcVars, mesVars, coverVars>>
  \/ \E u \in MlsUsers : \E g \in GroupIds : \E p \in UserIds :
        /\ fresh <= MaxMlsFresh
        /\ ProcessProposal(u, g, UpdateProposal(p), TRUE) /\ UNCHANGED <<signalVars, fsVars, asyncVars, qrcVars, mesVars, coverVars>>
  \/ \E u \in MlsUsers : \E g \in GroupIds : \E m \in Plaintexts :
        fresh <= MaxMlsFresh /\ EncryptGroupMessage(u, g, m) /\ UNCHANGED <<signalVars, fsVars, asyncVars, qrcVars, mesVars, coverVars>>
  \/ \E u \in MlsUsers : \E g \in GroupIds : \E pkt \in groupNetwork :
        DecryptGroupMessage(u, g, pkt.env) /\ UNCHANGED <<signalVars, fsVars, asyncVars, qrcVars, mesVars, coverVars>>
  \/ \E u \in MlsUsers : \E g \in GroupIds : \E pkt \in groupNetwork :
     \E e \in {0} \cup {groups[u][g].epoch : x \in {1 : y \in {groups[u][g]} \ {NoGroup}}} :
        DecryptGroupMessage(u, g, Retagged(pkt.env, e)) /\ UNCHANGED <<signalVars, fsVars, asyncVars, qrcVars, mesVars, coverVars>>

SpecMLS == Init /\ [][NextMLS]_vars

(***************************************************************************)
(* Claims about SignalProtocolService and ForwardSecrecyService            *)
(***************************************************************************)
\* the plaintext sealed in an envelope's secretbox
SealedPlaintext(env) == env.ciphertext[2][4]

\* the message key an envelope's secretbox is sealed under
SealingKey(env) == env.ciphertext[2][2]

\* C1: when A and B each hold a session with the other, established from the
\* other's prekey bundle, an envelope that A's encryptMessage(B, P) returned is
\* decrypted by B's decryptMessage(A, envelope) to exactly P.
C1_RoundTrip ==
  (/\ lastCall.op = "decryptMessage"
   /\ [from |-> lastCall.peer, env |-> lastCall.arg] \in network
   /\ lastCall.arg.conversationId = lastCall.dev
   /\ sessions[lastCall.dev][lastCall.peer].present
   /\ sessions[lastCall.peer][lastCall.dev].present)
  => lastCall.result = Ok(SealedPlaintext(lastCall.arg))

\* C2: no one-time prekey id is handed out in two bundles of one device (the
\* bundles handed out are as many as the distinct ids in them), and the prekey
\* of the bundle handed out last is no longer in the device's pool.
C2_PreKeyAtMostOnce ==
  \A d \in Devices :
    /\ bundleCount[d] = Cardinality(issuedIds[d])
    /\ (bundleCount[d] > 0 /\ bundles[d].present)
         => bundles[d].preKeyId \notin Range(preKeys[d].ids)

\* C3: once PreKeyCount bundles were handed out from a pool of PreKeyCount
\* generated keys, a further generatePreKeyBundle call fails with KeyExhausted
\* (it returns no bundle) for as long as the pool is not generated again.
C3_KeyExhausted ==
  \A d \in Devices :
    (lastCall.op = "generatePreKeyBundle" /\ lastCall.dev = d
       /\ bundleCount[d] > PreKeyCount)
    => lastCall.result = Err("KeyExhausted")

\* C4: every Session, of SignalProtocolService and of ForwardSecrecyService,
\* holds at most MaxReceivingChains receiving chains in every reachable state.
C4_AtMostFiveChains ==
  /\ \A d \in Devices : \A p \in Devices :
       sessions[d][p].present
         => Len(sessions[d][p].receivingChains) <= MaxReceivingChains
  /\ \A id \in FsSessionIds :
       fsSessions[id].present
         => Len(fsSessions[id].receivingChains) <= MaxReceivingChains

\* C5: after encryptMessage sealed an envelope and advanced the sending chain,
\* the pre-advance chain key was zeroed (it is not among the buffers released
\* without memzero) and the session holds neither the envelope's message key
\* nor a chain key that derives it.
C5_ForwardSecrecy ==
  (lastCall.op = "encryptMessage" /\ IsOk(lastCall.result))
  => LET session == sessions[lastCall.dev][lastCall.peer]
         messageKey == SealingKey(lastCall.result[2])
         preAdvanceKey == messageKey[4]
     IN /\ preAdvanceKey \notin droppedChainKeys[lastCall.dev]
        /\ messageKey \notin Range(session.sendingChain.messageKeys)
        /\ DeriveMessageKey(session.sendingChain.key) # messageKey

\* C6: a step in which encryptMessage returns an envelope raises the session's
\* sendingChain.index by exactly 1 and replaces the chain key by
\* crypto_auth("advance", key); in no step does the index of a session that
\* stays the same session decrease, and it stays put unless a message is sent.
C6_IndexAdvances ==
  [][\A d \in Devices : \A p \in Devices :
       LET old == sessions[d][p]
           new == sessions'[d][p]
           sent == /\ lastCall'.op = "encryptMessage"
                   /\ lastCall'.dev = d /\ lastCall'.peer = p
                   /\ IsOk(lastCall'.result)
                   /\ network' # network
       IN (old.present /\ new.present /\ new.sessionId = old.sessionId)
          => /\ new.sendingChain.index >= old.sendingChain.index
             /\ sent => /\ new.sendingChain.index = old.sendingChain.index + 1
                        /\ new.sendingChain.key = <<"auth", "advance", old.sendingChain.key>>
             /\ ~sent => new.sendingChain.index = old.sendingChain.index]_vars

\* C6 witness: a session that sent two messages on one chain
C6_Witness ==
  \E d \in Devices : \E p \in Devices :
    /\ sessions[d][p].present
    /\ sessions[d][p].sendingChain.index >= 2
    /\ Cardinality({pkt \in network : pkt.from = d}) >= 2

(***************************************************************************)
(* Claims about MLSService                                                 *)
(***************************************************************************)
\* the epoch in the associated data of a group envelope
AadEpoch(env) == env.ciphertext[2].epoch

\* the plaintext sealed in a group envelope
GroupPlaintext(env) == env.ciphertext[3][5]

\* userId is in the member list of group
IsMember(group, userId) == FindMember(group.members, userId, 1) # 0

\* C7: a group is registered by createGroup at epoch 0 and stays registered,
\* its epoch never decreases, and a step in which addMember or removeMember
\* returns normally with a changed member list raises the epoch by exactly 1.
C7_EpochMonotone ==
  [][\A u \in MlsUsers : \A g \in GroupIds :
       LET old == groups[u][g]
           new == groups'[u][g]
           changed == /\ lastCall'.op \in {"addMember", "removeMember"}
                      /\ lastCall'.user = u /\ lastCall'.group = g
                      /\ IsOk(lastCall'.result)
                      /\ new.members # old.members
       IN /\ (~old.present /\ new.present) => new.epoch = 0
          /\ old.present => /\ new.present
                             /\ new.epoch >= old.epoch
                             /\ changed => new.epoch = old.epoch + 1]_vars

\* C7 witness: a removeMember that completed on a group now at epoch 2
C7_Witness ==
  /\ lastCall.op = "removeMember"
  /\ IsOk(lastCall.result)
  /\ groups[lastCall.user][lastCall.group].epoch = 2
  /\ ~IsMember(groups[lastCall.user][lastCall.group], lastCall.target)

\* C8: decryptGroupMessage on a registered group, handed an envelope whose
\* associated-data epoch is not the group's current epoch, returns no
\* plaintext: it fails with EpochMismatch.
C8_EpochFencing ==
  (/\ lastCall.op = "decryptGroupMessage"
   /\ groups[lastCall.user][lastCall.group].present
   /\ AadEpoch(lastCall.arg) # groups[lastCall.user][lastCall.group].epoch)
  => lastCall.result = Err("EpochMismatch")

\* C8 witness: a user's own envelope of epoch e is rejected by that user's
\* group once the group is at epoch e + 1
C8_Witness ==
  /\ lastCall.op = "decryptGroupMessage"
  /\ [from |-> lastCall.user, env |-> lastCall.arg] \in groupNetwork
  /\ groups[lastCall.user][lastCall.group].present
  /\ groups[lastCall.user][lastCall.group].epoch = AadEpoch(lastCall.arg) + 1
  /\ lastCall.result = Err("EpochMismatch")

\* C9: an envelope that encryptGroupMessage returned to a sender whose group
\* is still at the envelope's epoch is decrypted to the sealed plaintext by
\* decryptGroupMessage of every user in that group's member list.
C9_GroupRoundTrip ==
  (/\ lastCall.op = "decryptGroupMessage"
   /\ \E pkt \in groupNetwork :
        /\ pkt.env = lastCall.arg
        /\ groups[pkt.from][lastCall.group].present
        /\ groups[pkt.from][lastCall.group].epoch = AadEpoch(pkt.env)
        /\ IsMember(groups[pkt.from][lastCall.group], lastCall.user))
  => lastCall.result = Ok(GroupPlaintext(lastCall.arg))

\* the key packages in the group state that user t's service holds
KnownKeyPackages(t, g) ==
  IF t \in MlsUsers /\ groups[t][g].present
  THEN {groups[t][g].members[k].keyPackage : k \in 1 .. Len(groups[t][g].members)}
  ELSE {}

\* C10: a step in which removeMember(t) returns normally leaves t out of the
\* member list and a treeHash computed over the remaining members, and t, if
\* t's service held the group with t as a member, cannot compute the new
\* epoch's group key: some leaf under the new treeHash is not a key package
\* that t held before the step.
C10_RemovedCannotDerive ==
  [][\A u \in MlsUsers : \A g \in GroupIds :
       (/\ lastCall'.op = "removeMember"
        /\ lastCall'.user = u /\ lastCall'.group = g
        /\ IsOk(lastCall'.result))
       => LET t == lastCall'.target
              new == groups'[u][g]
          IN /\ ~IsMember(new, t)
             /\ new.treeHash = ComputeTreeHash(new.members).hash
             /\ (t \in MlsUsers /\ groups[t][g].present /\ IsMember(groups[t][g], t))
                  => \E k \in 1 .. Len(new.members) :
                        new.members[k].keyPackage \notin KnownKeyPackages(t, g)]_vars

(***************************************************************************)
(* Claims about calls in flight                                            *)
(***************************************************************************)
RECURSIVE Advances(_)
\* how many times advanceChainKey was applied to reach a chain key
Advances(key) ==
  IF key[1] = "auth" THEN 1 + Advances(key[3]) ELSE 0

\* C11: with encryptMessage calls interleaving at their awaits, no two
\* envelopes of one sender are sealed under the same message key, and whenever
\* no call is in flight the chain key of a session has been advanced exactly
\* sendingChain.index times.
C11_NoInterleaving ==
  /\ \A p1 \in network : \A p2 \in network :
       (p1 # p2 /\ p1.from = p2.from)
         => SealingKey(p1.env) # SealingKey(p2.env)
  /\ (\A c \in CallIds : pending[c].pc = "idle")
       => \A d \in Devices : \A p \in Devices :
            sessions[d][p].present
              => Advances(sessions[d][p].sendingChain.key)
                   = sessions[d][p].sendingChain.index

\* the group key an envelope's AEAD ciphertext is sealed under
GroupSealingKey(env) == env.ciphertext[3][2]

\* the epoch a group key was derived for (its KDF subkey id)
KeyEpoch(groupKey) == groupKey[3]

\* C12: with MLSService calls interleaving at their awaits, every envelope
\* is sealed under a group key of the epoch its associated data records, and
\* in every state another call can observe, the treeHash of a group is the
\* tree hash of its current member list.
C12_EpochExclusive ==
  /\ \A pkt \in groupNetwork :
       KeyEpoch(GroupSealingKey(pkt.env)) = AadEpoch(pkt.env)
  /\ \A u \in MlsUsers : \A g \in GroupIds :
       (groups[u][g].present /\ ComputeTreeHash(groups[u][g].members).ok)
         => groups[u][g].treeHash = ComputeTreeHash(groups[u][g].members).hash

\* C13: a createGroup, addMember, removeMember or processProposal call that
\* fails leaves the group registry as it was before the call: no group
\* registered, no member added or removed, epoch and treeHash unchanged, no
\* proposal left in pendingProposals.
C13_GroupFailureAtomic ==
  [][(/\ lastCall'.op \in {"createGroup", "addMember", "removeMember", "processProposal"}
      /\ ~IsOk(lastCall'.result))
       => groups' = groups]_vars

\* C14: a decryptMessage call that fails leaves the Session as it was before
\* the call: no receiving chain registered or overwritten, rootKey not
\* replaced.
C14_DecryptFailureAtomic ==
  [][(lastCall'.op = "decryptMessage" /\ ~IsOk(lastCall'.result))
       => sessions' = sessions]_vars

\* C15: an initializeSession call in which a DH or KDF step fails stores no
\* session for the peer, leaves the sessions of the other peers as they were
\* and consumes no one-time prekey: every prekey of the pool is still there
\* and no bundle is handed out.
C15_FailedSetupStoresNothing ==
  [][(lastCall'.op = "initializeSession" /\ ~IsOk(lastCall'.result))
       => /\ sessions' = sessions
          /\ \A d \in Devices : Range(preKeys[d].ids) \subseteq Range(preKeys'[d].ids)
          /\ issuedIds' = issuedIds
          /\ bundles' = bundles]_vars

\* a setup for one peer has failed while a session with the other peer and
\* a pool of one-time prekeys exist
C15_Witness ==
  /\ lastCall.op = "initializeSession" /\ ~IsOk(lastCall.result)
  /\ ~sessions[lastCall.dev][lastCall.peer].present
  /\ \E p \in Devices : sessions[lastCall.dev][p].present
  /\ Len(preKeys[lastCall.dev].ids) > 0

(***************************************************************************)
(* Claims about QuantumResistantCrypto                                     *)
(***************************************************************************)
\* C17: hybridDecrypt of a packet hybridEncrypt made returns the payload
\* under the private key of the pair the packet was made for, and fails
\* under the private key of any other pair.
C17_HybridRoundTrip ==
  (lastCall.op = "hybridDecrypt" /\ lastCall.change[1] = 0)
    => IF lastCall.keyId = lastCall.sent.keyId
       THEN lastCall.result = Ok(lastCall.sent.data)
       ELSE ~IsOk(lastCall.result)

\* a 10 KB payload came back under the matching private key
C17_Witness ==
  /\ lastCall.op = "hybridDecrypt" /\ lastCall.change[1] = 0
  /\ lastCall.keyId = lastCall.sent.keyId
  /\ lastCall.result = Ok(lastCall.sent.data)
  /\ ByteLength(lastCall.sent.data) = 10240

(***************************************************************************)
(* Claims about MessageEncryptionService                                   *)
(***************************************************************************)
\* C16: encryptMessage wraps exactly the non-text messages, decryptMessage
\* unwraps exactly the envelopes encryptMessage wrapped, and the ratchet is
\* handed the ciphertext it produced.
C16_WrapSymmetry ==
  /\ \A sent \in network : sent.wrapped <=> sent.type # "text"
  /\ (/\ lastCall.op = "mes.decryptMessage"
      /\ lastCall.messageType = lastCall.sent.env.messageType)
       => /\ lastCall.unwrapped = lastCall.sent.wrapped
          /\ lastCall.handed = lastCall.sent.inner

\* C18: decryptGroupMessage of a group envelope that was sent, with one
\* byte of its ciphertext field changed (here: the epoch digit of the
\* associated data it carries), fails with DecryptionFailure.
C18_TamperDetected ==
  (/\ lastCall.op = "decryptGroupMessage"
   /\ groups[lastCall.user][lastCall.group].present
   /\ \E sent \in groupNetwork :
        /\ lastCall.arg # sent.env
        /\ lastCall.arg = Retagged(sent.env, AadEpoch(lastCall.arg)))
    => lastCall.result = Err("DecryptionFailure")

\* C19: quantumSafeVerify returns false for every packet quantumSafeSign
\* made whose timestamp is more than 5 minutes before or after the
\* verifier's clock, whatever the data and the key.
C19_OutsideWindowRejected ==
  (/\ lastCall.op = "quantumSafeVerify"
   /\ Abs(lastCall.now - lastCall.sent.time) > MaxSignatureAge)
    => lastCall.result = FALSE

\* a packet that carries a valid signature of the data under the key, laid
\* out as the verifier expects, was presented too late and was rejected
C19_Witness ==
  /\ lastCall.op = "quantumSafeVerify"
  /\ lastCall.now - lastCall.sent.time > MaxSignatureAge
  /\ lastCall.data = lastCall.sent.data
  /\ lastCall.keyId = lastCall.sent.keyId
  /\ lastCall.sent.packet[1].n = SignatureLength
  /\ lastCall.result = FALSE

\* C20: quantumSafeVerify of a packet quantumSafeSign made is true for the
\* signed data and the matching public key within 5 minutes of signing, and
\* false for other data; verify reads the signature, the timestamp and the
\* nonce at the offsets sign wrote them.
C20_SignVerifyRoundTrip ==
  lastCall.op = "quantumSafeVerify"
    => /\ (/\ lastCall.data = lastCall.sent.data
           /\ lastCall.keyId = lastCall.sent.keyId
           /\ Abs(lastCall.now - lastCall.sent.time) <= MaxSignatureAge)
            => lastCall.result = TRUE
       /\ lastCall.data # lastCall.sent.data => lastCall.result = FALSE

(***************************************************************************)
(* Claims about deliveries, lookups and timers                             *)
(***************************************************************************)
\* C21: an envelope delivered to decryptMessage a second time, right after
\* its first delivery, is treated as a replay: the session is not changed
\* (no receiving chain added or overwritten, rootKey not replaced).
C21_ReplayNoEffect ==
  [][(/\ lastCall.op = "decryptMessage" /\ lastCall'.op = "decryptMessage"
      /\ lastCall'.dev = lastCall.dev /\ lastCall'.peer = lastCall.peer
      /\ lastCall'.arg.id = lastCall.arg.id)
       => sessions' = sessions]_vars

\* the deliveries so far are the first messages of the order 1, 2, 3, 5, 4
InOrder12354 ==
  /\ Len(delivered) <= 5
  /\ \A i \in DOMAIN delivered : delivered[i].number = <<1, 2, 3, 5, 4>>[i]

\* C22: the messages of one chain delivered in the order 1, 2, 3, 5, 4 all
\* decrypt to what was sealed in them, the late message 4 included.
C22_OutOfOrder ==
  InOrder12354 => \A i \in DOMAIN delivered : delivered[i].result = Ok(delivered[i].sealed)

\* C23: encryptMessage and decryptMessage for a peer the device holds no
\* session with fail with SessionNotFound and leave every session of every
\* device as it was; no session is created.
C23_SessionNotFound ==
  [][(/\ lastCall'.op \in {"encryptMessage", "decryptMessage"}
      /\ ~sessions[lastCall'.dev][lastCall'.peer].present)
       => /\ lastCall'.result = Err("SessionNotFound")
          /\ sessions' = sessions]_vars

\* a call for a peer without a session has failed while another session exists
C23_Witness ==
  /\ lastCall.op \in {"encryptMessage", "decryptMessage"}
  /\ lastCall.result = Err("SessionNotFound")
  /\ ~sessions[lastCall.dev][lastCall.peer].present
  /\ \E d \in Devices : \E p \in Devices : sessions[d][p].present

(***************************************************************************)
(* Claims about MLSService failures                                        *)
(***************************************************************************)
\* the methods of MLSService that look a group up by its id
GroupMethods ==
  {"addMember", "removeMember", "encryptGroupMessage", "decryptGroupMessage",
   "processProposal"}

\* C24: a call of addMember, removeMember, encryptGroupMessage,
\* decryptGroupMessage or processProposal for a groupId the user has not
\* registered fails with GroupNotFound and leaves the registry as it was.
C24_GroupNotFound ==
  [][(/\ lastCall'.op \in GroupMethods
      /\ ~groups[lastCall'.user][lastCall'.group].present)
       => /\ lastCall'.result = Err("GroupNotFound")
          /\ groups' = groups]_vars

\* a user without the group was refused while another user has it registered
C24_Witness ==
  /\ lastCall.op \in GroupMethods
  /\ lastCall.result = Err("GroupNotFound")
  /\ ~groups[lastCall.user][lastCall.group].present
  /\ \E u \in MlsUsers : groups[u][lastCall.group].present

\* an add proposal without target or data, or a remove proposal without target
InvalidProposal(proposal) ==
  \/ proposal.type = "add" /\ (proposal.target = NoTarget \/ proposal.data = Undefined)
  \/ proposal.type = "remove" /\ proposal.target = NoTarget

\* C25: processProposal on a registered group rejects an add proposal that
\* lacks its target or its data and a remove proposal that lacks its target
\* with ProposalInvalid, and leaves members, treeHash and epoch as they were.
C25_ProposalInvalid ==
  [][(/\ lastCall'.op = "processProposal"
      /\ groups[lastCall'.user][lastCall'.group].present
      /\ InvalidProposal(lastCall'.proposal))
       => /\ lastCall'.result = Err("ProposalInvalid")
          /\ LET before == groups[lastCall'.user][lastCall'.group]
                 after == groups'[lastCall'.user][lastCall'.group]
             IN /\ after.members = before.members
                /\ after.treeHash = before.treeHash
                /\ after.epoch = before.epoch]_vars

\* an invalid proposal was rejected on a group that has members
C25_Witness ==
  /\ lastCall.op = "processProposal"
  /\ InvalidProposal(lastCall.proposal)
  /\ lastCall.result = Err("ProposalInvalid")
  /\ groups[lastCall.user][lastCall.group].present
  /\ Len(groups[lastCall.user][lastCall.group].members) >= 1

(***************************************************************************)
(* Claims about the identity key and the deletion timers                   *)
(***************************************************************************)
\* C26: once a device has an identity key pair, no call of initialize,
\* initializeSession, generatePreKeyBundle or rotateSignedPreKey replaces it.
C26_IdentityCreatedOnce ==
  [][\A d \in Devices :
       identityKeyPair[d].present => identityKeyPair'[d] = identityKeyPair[d]]_vars

\* C27: a deletion is scheduled only for a message whose encryption
\* succeeded, and deleteMessage is invoked for a scheduled deletion only once
\* its TTL has elapsed.
C27_DeletionAfterTtl ==
  /\ \A t \in timers \cup deletions :
       \E pkt \in network : pkt.env.timestamp = t.handle
  /\ \A x \in deletions : x.at >= x.scheduledAt + x.ttl

\* C28: once the cancellation of a pending deletion was asked for,
\* deleteMessage is never invoked by that timer.
C28_CancelledNeverDeleted ==
  \A x \in deletions : x.handle \notin cancelled

(***************************************************************************)
(* Claims about the ratchet step and the hybrid envelope                   *)
(***************************************************************************)
\* C29: decryptMessage of an envelope whose ephemeral public key already has
\* a receiving chain registered under its fingerprint makes no ratchet step:
\* rootKey and the receiving chains of the session stay as they were.
C29_ChainReused ==
  [][(/\ lastCall'.op = "decryptMessage"
      /\ sessions[lastCall'.dev][lastCall'.peer].present
      /\ lastCall'.arg.ephemeralPublicKey # Undefined
      /\ ChainIndex(sessions[lastCall'.dev][lastCall'.peer].receivingChains,
                    ToHex(lastCall'.arg.ephemeralPublicKey), 1) # 0)
       => LET before == sessions[lastCall'.dev][lastCall'.peer]
              after == sessions'[lastCall'.dev][lastCall'.peer]
          IN /\ after.rootKey = before.rootKey
             /\ after.receivingChains = before.receivingChains]_vars

\* the length prefix of a received packet does not fit the packet: fewer
\* than four bytes, or prefix, encapsulated key and nonce pass its end
PrefixInconsistent(received, prefix) ==
  \/ ByteLength(received) < LengthPrefixBytes
  \/ LengthPrefixBytes + prefix + AeadNonceBytes > ByteLength(received)

\* C30: hybridDecrypt of a packet whose length prefix does not fit the
\* packet fails with DecryptionFailure.
C30_InconsistentPrefixRejected ==
  (/\ lastCall.op = "hybridDecrypt"
   /\ PrefixInconsistent(lastCall.received, lastCall.prefix))
    => lastCall.result = Err("DecryptionFailure")

(***************************************************************************)
(* Claims about the sending chain's stored message keys                    *)
(***************************************************************************)
RECURSIVE Unadvanced(_, _)
\* the chain key k advances before chainKey
Unadvanced(chainKey, k) == IF k = 0 THEN chainKey ELSE Unadvanced(chainKey[3], k - 1)

\* the envelopes device d sealed under one of the keys of a sending chain
SealedUnder(d, chain) ==
  {pkt \in network : /\ pkt.from = d
                     /\ \E i \in DOMAIN chain.messageKeys :
                          pkt.env.ciphertext[2][2] = chain.messageKeys[i]}

\* C31: after n sequential encryptMessage calls on a session its sending
\* chain has index n and message keys under exactly 0..n-1, the key under i
\* derived from the chain key before the i-th advance; no two indices hold
\* the same key and each key sealed one envelope.
C31_StoredMessageKeys ==
  \A d \in Devices : \A p \in Devices :
    sessions[d][p].present =>
      LET chain == sessions[d][p].sendingChain IN
      /\ DOMAIN chain.messageKeys = 0 .. (chain.index - 1)
      /\ Cardinality(SealedUnder(d, chain)) = chain.index
      /\ \A i \in DOMAIN chain.messageKeys :
           chain.messageKeys[i] =
             DeriveMessageKey(Unadvanced(chain.key, chain.index - i))
      /\ \A i \in DOMAIN chain.messageKeys : \A j \in DOMAIN chain.messageKeys :
           i # j => chain.messageKeys[i] # chain.messageKeys[j]
      /\ \A a \in SealedUnder(d, chain) : \A b \in SealedUnder(d, chain) :
           a.env.ciphertext[2][2] = b.env.ciphertext[2][2] => a = b

\* a session has sealed two different plaintexts
C31_Witness ==
  \E d \in Devices : \E p \in Devices :
    /\ sessions[d][p].present
    /\ sessions[d][p].sendingChain.index >= 2
    /\ \E a \in SealedUnder(d, sessions[d][p].sendingChain) :
         \E b \in SealedUnder(d, sessions[d][p].sendingChain) :
           a.env.ciphertext[2][4] # b.env.ciphertext[2][4]

(***************************************************************************)
(* Claims about the group's tree hash, members and epoch                   *)
(***************************************************************************)
\* the operations of MLSService that may change a group
GroupChanges == {"createGroup", "addMember", "removeMember", "processProposal"}

\* C32: after every group operation that returned, the group's treeHash is
\* the Merkle reduction of the key packages of its members, in their order.
C32_TreeHashCurrent ==
  (/\ lastCall.op \in GroupChanges
   /\ IsOk(lastCall.result)
   /\ groups[lastCall.user][lastCall.group].present)
    => LET group == groups[lastCall.user][lastCall.group]
           reduced == ComputeTreeHash(group.members)
       IN /\ reduced.ok
          /\ group.treeHash = reduced.hash

(***************************************************************************)
(* Claims about ForwardSecrecyService                                      *)
(***************************************************************************)
\* the steps in which rotateKeys of ForwardSecrecyService ran on session id
Rotates(id) ==
  /\ lastCall'.op \in {"rotateKeys", "performQuantumRatchet"}
  /\ fsSessions[id].present
  /\ fsRotations'[id] = fsRotations[id] + 1

\* receivingChains of session id as the rotation of this step handed it to
\* cleanupOldKeys
BeforeCleanup(id) ==
  ChainsSet(fsSessions[id].receivingChains,
            ToHex(fsSessions'[id].sendingChain.key), fsSessions'[id].sendingChain)

\* C33: when a rotation leaves more than 5 receiving chains, cleanupOldKeys
\* removes chains of lowest index until 5 remain, zeroes the key and the
\* stored message keys of every chain it removes, and leaves the 5 surviving
\* chains and the sending chain as they were, none of their keys zeroed.
C33_CleanupEvictsOldest ==
  [][\A id \in FsSessionIds :
       (Rotates(id) /\ Len(BeforeCleanup(id)) > MaxReceivingChains)
         => LET after == fsSessions'[id].receivingChains
                removed == Range(BeforeCleanup(id)) \ Range(after)
            IN /\ Len(after) = MaxReceivingChains
               /\ Range(after) \subseteq Range(BeforeCleanup(id))
               /\ Cardinality(Range(after)) = MaxReceivingChains
               /\ \A r \in removed : \A k \in Range(after) :
                    r.chain.index <= k.chain.index
               /\ \A r \in removed :
                    /\ r.chain.key \in fsZeroed'[id]
                    /\ Range(r.chain.messageKeys) \subseteq fsZeroed'[id]
               /\ \A k \in Range(after) : k.chain.key \notin fsZeroed'[id]
               /\ fsSessions'[id].sendingChain.key \notin fsZeroed'[id]]_vars

\* a seventh rotation has evicted a second chain and zeroed its key
C33_Witness ==
  \E id \in FsSessionIds :
    /\ fsSessions[id].present
    /\ fsRotations[id] >= MaxReceivingChains + 2
    /\ Len(fsSessions[id].receivingChains) = MaxReceivingChains
    /\ Cardinality({k \in fsZeroed[id] : k[1] = "kdf" /\ k[2] = "MESSAFS"}) >= 2

\* C34: an update proposal of a member that carries data, once applied,
\* has replaced that member's key package and nothing else in members, has
\* recomputed treeHash and raised epoch by exactly 1; an update proposal of
\* a non-member or without data leaves members, treeHash and epoch as they were.
C34_UpdateFrame ==
  [][(/\ lastCall'.op = "processProposal"
      /\ groups[lastCall'.user][lastCall'.group].present
      /\ lastCall'.proposal.type = "update")
       => LET before == groups[lastCall'.user][lastCall'.group]
              after == groups'[lastCall'.user][lastCall'.group]
              proposal == lastCall'.proposal
              at == {i \in DOMAIN before.members :
                       before.members[i].userId = proposal.proposer}
          IN IF at # {} /\ proposal.data # Undefined
             THEN IsOk(lastCall'.result)
                    => /\ \E i \in at :
                            /\ \A j \in at : i <= j
                            /\ after.members =
                                 [before.members EXCEPT ![i].keyPackage = proposal.data]
                       /\ after.epoch = before.epoch + 1
                       /\ after.treeHash = ComputeTreeHash(after.members).hash
             ELSE /\ IsOk(lastCall'.result)
                  /\ after.members = before.members
                  /\ after.treeHash = before.treeHash
                  /\ after.epoch = before.epoch]_vars

\* in a group of two the update of one member was applied
C34_Witness ==
  /\ lastCall.op = "processProposal"
  /\ lastCall.proposal.type = "update"
  /\ lastCall.proposal.data # Undefined
  /\ IsOk(lastCall.result)
  /\ groups[lastCall.user][lastCall.group].present
  /\ LET group == groups[lastCall.user][lastCall.group]
     IN /\ Len(group.members) >= 2
        /\ group.epoch >= 1
        /\ \E i \in DOMAIN group.members :
             /\ group.members[i].userId = lastCall.proposal.proposer
             /\ group.members[i].keyPackage = lastCall.proposal.data

C36_OldChainsKept ==
  \A id \in FsSessionIds :
    fsSessions[id].present =>
      \A i \in DOMAIN fsSessions[id].receivingChains :
        /\ fsSessions[id].receivingChains[i].chain # fsSessions[id].sendingChain
        /\ fsSessions[id].receivingChains[i].chain.key # fsSessions[id].sendingChain.key

\* C37: performQuantumRatchet runs the rotateKeys step of
\* ForwardSecrecyService only when sendingChain.index is a positive multiple
\* of the rotation interval.
C37_RotationAfterInterval ==
  [][\A id \in FsSessionIds :
       (/\ lastCall'.op = "performQuantumRatchet"
        /\ fsSessions[id].present
        /\ fsRotations'[id] # fsRotations[id])
         => /\ fsSessions[id].sendingChain.index > 0
            /\ fsSessions[id].sendingChain.index % RotationInterval = 0]_vars

\* C38: in every registered group no userId appears twice in members,
\* whatever memberIds createGroup was given and whatever add proposals were
\* applied, through addMember or through processProposal.
C38_MembersDistinct ==
  \A u \in MlsUsers : \A g \in GroupIds :
    groups[u][g].present =>
      \A i, j \in 1 .. Len(groups[u][g].members) :
        groups[u][g].members[i].userId = groups[u][g].members[j].userId => i = j

\* C39: a removal of somebody who is not a member, by removeMember or by a
\* remove proposal, leaves the members, the treeHash and the epoch of the
\* group as they were.
C39_RemovalOfNonMember ==
  [][\A u \in MlsUsers : \A g \in GroupIds :
       (/\ groups[u][g].present
        /\ lastCall'.op \in {"removeMember", "processProposal"}
        /\ lastCall'.user = u /\ lastCall'.group = g
        /\ \/ /\ lastCall'.op = "removeMember"
              /\ FindMember(groups[u][g].members, lastCall'.target, 1) = 0
           \/ /\ lastCall'.op = "processProposal"
              /\ lastCall'.proposal.type = "remove"
              /\ lastCall'.proposal.target # NoTarget
              /\ FindMember(groups[u][g].members, lastCall'.proposal.target, 1) = 0)
         => /\ groups'[u][g].members = groups[u][g].members
            /\ groups'[u][g].treeHash = groups[u][g].treeHash
            /\ groups'[u][g].epoch = groups[u][g].epoch]_vars

(***************************************************************************)
(* CoverTrafficService                                                     *)
(***************************************************************************)
\* const blockSize = 256 of padData
BlockSize == 256

\* ttl of the packets wrapMessage builds
RealPacketTtl == 5

\* Math.ceil(a / b) for a >= 0, b > 0
Ceil(a, b) == (a + b - 1) \div b

\* a Uint8Array of len bytes, each equal to fill
Bytes(len, fill) == [i \in 1 .. len |-> fill]

\* the four bytes view.setUint32(_, value, false) writes, big-endian
Uint32Bytes(value) ==
  <<(value \div 16777216) % 256, (value \div 65536) % 256,
    (value \div 256) % 256, value % 256>>

\* view.setUint32(byteOffset, value, false) on buffer b
SetUint32(b, byteOffset, value) ==
  [i \in 1 .. Len(b) |->
     IF i > byteOffset /\ i <= byteOffset + 4
     THEN Uint32Bytes(value)[i - byteOffset] ELSE b[i]]

\* view.getUint32(byteOffset, false) on buffer b, big-endian
ReadUint32(b, byteOffset) ==
  b[byteOffset + 1] * 16777216 + b[byteOffset + 2] * 65536
    + b[byteOffset + 3] * 256 + b[byteOffset + 4]

\* padData(data): the data, zero bytes up to the next multiple of blockSize
\* (one block more when the length is a multiple already), the length of the
\* data written over the last four bytes
PadData(data) ==
  LET paddedSize == Ceil(Len(data), BlockSize) * BlockSize
  IN IF paddedSize = Len(data)
     THEN SetUint32(data \o Bytes(BlockSize, 0), paddedSize + BlockSize - 4, Len(data))
     ELSE SetUint32(data \o Bytes(paddedSize - Len(data), 0), paddedSize - 4, Len(data))

\* unpadData(padded)
UnpadData(padded) ==
  IF Len(padded) < 4 THEN padded
  ELSE LET originalSize == ReadUint32(padded, Len(padded) - 4)
       IN IF originalSize > Len(padded) - 4 THEN padded
          ELSE SubSeq(padded, 1, originalSize)

\* what unwrapPacket returns: null, or a Uint8Array
Null == [null |-> TRUE, bytes |-> <<>>]
Returned(bytes) == [null |-> FALSE, bytes |-> bytes]

\* wrapMessage(data): the packet is handed to the caller, who remembers what
\* it wrapped
WrapMessage(data) ==
  LET packet == [id |-> Rnd(fresh, "uuid"), type |-> "real",
                 payload |-> PadData(data), ttl |-> RealPacketTtl]
  IN /\ coverPackets' = coverPackets \cup {[packet |-> packet, data |-> data]}
     /\ fresh' = fresh + 1
     /\ lastCall' = [op |-> "wrapMessage", data |-> data, result |-> Ok(packet)]
     /\ UNCHANGED packetHistory

\* generateCoverTraffic(): size random bytes, a random ttl of 1 to 5
GenerateCoverTraffic(size, fill, ttl) ==
  LET packet == [id |-> Rnd(fresh, "uuid"), type |-> "cover",
                 payload |-> Bytes(size, fill), ttl |-> ttl]
  IN /\ coverPackets' = coverPackets \cup {[packet |-> packet, data |-> <<>>]}
     /\ fresh' = fresh + 1
     /\ lastCall' = [op |-> "generateCoverTraffic", result |-> Ok(packet)]
     /\ UNCHANGED packetHistory

\* unwrapPacket(packet) of a packet the caller holds; ttl is the ttl the
\* packet arrives with
UnwrapPacket(held, ttl) ==
  LET packet == [held.packet EXCEPT !.ttl = ttl]
      call == [op |-> "unwrapPacket", packet |-> packet, data |-> held.data,
               seen |-> packet.id \in packetHistory]
  IN IF packet.id \in packetHistory
     THEN /\ lastCall' = call @@ [result |-> Null]
          /\ UNCHANGED <<coverPackets, packetHistory, fresh>>
     ELSE /\ packetHistory' = packetHistory \cup {packet.id}
          /\ lastCall' = call @@
               [result |-> IF packet.ttl <= 0 THEN Null
                           ELSE IF packet.type = "real"
                           THEN Returned(UnpadData(packet.payload))
                           ELSE Null]
          /\ UNCHANGED <<coverPackets, fresh>>

\* packets handed out per behaviour
MaxCoverFresh == 2

\* the lengths of the data wrapped: empty, short, around one block and
\* around two blocks
DataLengths == {0, 1, 4, 252, 253, 254, 255, 256, 257, 509, 512}

\* the byte the data is filled with
DataFills == {0, 171}

\* sizes of generated cover payloads, of the 100 .. 1499 the service draws
CoverSizes == {100, 256}

\* A node wraps messages of several lengths, generates cover packets, and
\* unwraps what was handed out, as built or with the ttl run down, once or
\* again.
NextCover ==
  \/ \E len \in DataLengths : \E fill \in DataFills :
        /\ fresh <= MaxCoverFresh
        /\ WrapMessage(Bytes(len, fill))
        /\ UNCHANGED <<signalVars, fsVars, mlsVars, asyncVars, qrcVars, mesVars>>
  \/ \E size \in CoverSizes : \E ttl \in {1, 5} :
        /\ fresh <= MaxCoverFresh
        /\ GenerateCoverTraffic(size, 171, ttl)
        /\ UNCHANGED <<signalVars, fsVars, mlsVars, asyncVars, qrcVars, mesVars>>
  \/ \E held \in coverPackets : \E ttl \in {0, held.packet.ttl} :
        /\ UnwrapPacket(held, ttl)
        /\ UNCHANGED <<signalVars, fsVars, mlsVars, asyncVars, qrcVars, mesVars>>

SpecCover == Init /\ [][NextCover]_vars

\* C40: padding is lossless and block-aligned: unwrapPacket of a packet
\* wrapMessage built from data d, arriving with its ttl and not seen before,
\* returns d, for every length of d; and the payload of every packet
\* wrapMessage built has a length that is a positive multiple of 256.
C40_PaddingLossless ==
  /\ \A held \in coverPackets :
        held.packet.type = "real" =>
          /\ Len(held.packet.payload) > 0
          /\ Len(held.packet.payload) % BlockSize = 0
  /\ (/\ lastCall.op = "unwrapPacket"
      /\ lastCall.packet.type = "real"
      /\ lastCall.packet.ttl > 0
      /\ ~lastCall.seen)
       => lastCall.result = Returned(lastCall.data)


====
